---- MODULE Spec2Model ----
(***************************************************************************)
(* OnBloom Slack bot: the commonality scorer and connection ranker behind   *)
(* POST /introductions (src/src/api/webhooks.ts) and the housing            *)
(* conversation state machine (housing service, conversation-state          *)
(* service, Slack handlers).                                                *)
(*                                                                          *)
(* The specifications of this module:                                       *)
(*   SpecScore     one /introductions request, candidate by candidate       *)
(*   SpecPipeline  findCommonalities on one candidate, against every        *)
(*                 combination of collaborator outcomes                     *)
(*   SpecCalc      calculateConnectionScore on lists of every size          *)
(*   SpecHousing   message handlers on the conversation-state store,        *)
(*                 interleaved at their awaits, with a clock                *)
(*   SpecRoundTrip the state service called in sequence for one key         *)
(***************************************************************************)
EXTENDS Integers, Sequences, FiniteSets, TLC

VARIABLES
    \* ---- /introductions request (SpecScore) ----
    employee,        \* req.body.employee
    people,          \* req.body.people
    ipc,             \* position of the request handler
    idx,             \* findCommonalities: index of the candidate being processed
    results,         \* findCommonalities: results pushed so far
    lastIn,          \* collaborator outcomes met by the candidates processed so far
    commonalities,   \* value findCommonalities resolved with
    enhancedPeople,  \* response.people
    \* ---- one candidate against every collaborator outcome (SpecPipeline) ----
    pipe,            \* the profiles and outcomes drawn, and what findCommonalities gave
    \* ---- the score function on counts (SpecCalc) ----
    calc,            \* the counts drawn, and the scores computed
    \* ---- housing conversation (SpecHousing) ----
    now,             \* Date.now(), in seconds
    redis,           \* the state store: key -> stored record and its expiry
    h,               \* per message handler: its position and locals
    received,        \* messages received so far
    \* ---- the state service called in sequence (SpecRoundTrip) ----
    rt,              \* the caller: its position, its arguments and what it was answered
    \* ---- the Slack message handlers (SpecChat) ----
    chat,            \* per message handler: its position and locals in the Slack handler
    memory,          \* the conversation-history store: key -> history
    \* ---- the delivery chain of /introductions (SpecDelivery) ----
    dlv,             \* the request, the position in the chain and slackMessages
    \* ---- a pure function applied to an input ----
    fn               \* the input drawn and the value returned

scoreVars == <<employee, people, ipc, idx, results, lastIn, commonalities, enhancedPeople>>
housingVars == <<now, redis, h, received, rt>>
chatVars == <<chat, memory>>
vars == <<employee, people, ipc, idx, results, lastIn, commonalities, enhancedPeople,
          pipe, calc, now, redis, h, received, rt, chat, memory, dlv, fn>>

\* JavaScript null / undefined
Null == "null"

(***************************************************************************)
(* Bounds of the model                                                      *)
(***************************************************************************)
MaxPeople == 3
MaxCount == 10
MaxTicks == 2
MaxMessages == 3
MaxChatMessages == 2
MaxCandidates == 4
MaxChunks == 3
MaxPrefMessages == 2
MaxHeritage == 2
MaxEntities == 6
MaxAppends == 22
MaxClearMessages == 2

(***************************************************************************)
(* Sequence helpers (Array.prototype methods)                               *)
(***************************************************************************)
Min2(a, b) == IF a < b THEN a ELSE b

\* Array.prototype.slice(0, n)
Slice0(s, n) == SubSeq(s, 1, Min2(n, Len(s)))

RECURSIVE FilterSeq(_, _)
\* Array.prototype.filter with the test "member of keep"
FilterSeq(s, keep) ==
    IF s = <<>> THEN <<>>
    ELSE IF Head(s) \in keep THEN <<Head(s)>> \o FilterSeq(Tail(s), keep)
         ELSE FilterSeq(Tail(s), keep)

RECURSIVE FlattenSeq(_)
FlattenSeq(ss) == IF ss = <<>> THEN <<>> ELSE Head(ss) \o FlattenSeq(Tail(ss))

Range(s) == {s[i] : i \in 1..Len(s)}

RECURSIVE DedupFrom(_, _)
DedupFrom(s, seen) ==
    IF s = <<>> THEN <<>>
    ELSE IF Head(s) \in seen THEN DedupFrom(Tail(s), seen)
         ELSE <<Head(s)>> \o DedupFrom(Tail(s), seen \cup {Head(s)})

\* [...new Set(s)]: first occurrences, in insertion order
Dedup(s) == DedupFrom(s, {})

(***************************************************************************)
(* Profiles.  Strings of the request are kept as tokens; the substring and  *)
(* case tests the code applies to them are tables over these tokens.        *)
(***************************************************************************)
Departments == {"Engineering", "Sales"}
Roles == {"VP Eng", "Director", "Engineer"}

\* role.toLowerCase() contains one of 'vp','director','head','chief','manager','lead'
IsLeadershipRole(role) == role \in {"VP Eng", "Director"}

\* location.includes('London')
MentionsLondon(location) == location \in {"London, UK"}

\* The employees a request may carry.  A missing role (undefined) is what a
\* request body without that field gives.
EmployeePool ==
    { [name |-> "Ada", email |-> "ada@x", department |-> "Engineering",
       role |-> "VP Eng", location |-> "London, UK"],
      [name |-> "Ada", email |-> "ada@x", department |-> "Sales",
       role |-> "Engineer", location |-> Null],
      [name |-> "Ada", email |-> "ada@x", department |-> "Engineering",
       role |-> Null, location |-> "Paris, FR"] }

\* The candidates a request may carry; a list may repeat one.
PersonPool ==
    { [id |-> "p1", name |-> "Bob", email |-> "bob@x", department |-> "Engineering",
       role |-> "Director"],
      [id |-> "p2", name |-> "Cy", email |-> "cy@x", department |-> "Sales",
       role |-> "Engineer"],
      [id |-> "p3", name |-> "Di", email |-> Null, department |-> "Engineering",
       role |-> Null] }

RECURSIVE SeqsUpTo(_, _)
SeqsUpTo(S, n) ==
    IF n = 0 THEN {<<>>}
    ELSE LET shorter == SeqsUpTo(S, n - 1)
         IN  shorter \cup {Append(s, x) : s \in {t \in shorter : Len(t) = n - 1}, x \in S}

(***************************************************************************)
(* Collaborator outcomes.  A call either throws (ok = FALSE) or resolves    *)
(* with a results list.  Affinities are in tenths; 0 stands for an absent   *)
(* affinity field.                                                          *)
(***************************************************************************)
Threw == [ok |-> FALSE, results |-> <<>>]
Resolved(items) == [ok |-> TRUE, results |-> items]

EJazz  == [id |-> "e1", name |-> "Jazz",  category |-> "music"]
ESushi == [id |-> Null, name |-> "Sushi", category |-> "food"]
ERamen == [id |-> "e3", name |-> "Ramen", category |-> "food"]

TCulture == [id |-> "t1", name |-> "culture"]
TTech    == [id |-> Null, name |-> "tech"]

SearchAllThrow == <<Threw, Threw, Threw>>
SearchSomeThrow == <<Resolved(<<EJazz>>), Threw, Resolved(<<ESushi>>)>>
SearchAllResolve == <<Resolved(<<ESushi, ERamen>>), Resolved(<<>>), Resolved(<<EJazz>>)>>

\* qloo.search outcomes of the (up to) three queries of one gather call
SearchVecs == {SearchAllThrow, SearchSomeThrow, SearchAllResolve}

TagsAllThrow == <<Threw, Threw, Threw>>
TagsAllResolve == <<Resolved(<<TCulture>>), Resolved(<<TTech>>), Resolved(<<>>)>>
TagsSecondThrows == <<Resolved(<<TTech>>), Threw, Resolved(<<TCulture>>)>>

\* qloo.searchTags outcomes of the (up to) three keywords of one gather call
TagVecs == {TagsAllThrow, TagsAllResolve, TagsSecondThrows}

Item(n, a) == [name |-> n, affinity |-> a]

CompareRich ==
    Resolved(<<Item("Blues", 0), Item("Tacos", 9), Item("Blues", 8), Item("Opera", 9)>>)

\* qloo.compareAnalysis outcomes
CompareOutcomes == {Threw, Resolved(<<>>), CompareRich}

InsightsRich ==
    Resolved(<<Item("Nike", 9), Item("Ikea", 4), Item("Lego", 6), Item("Muji", 9)>>)
InsightsLateHigh ==
    Resolved(<<Item("Ikea", 5), Item("Nike", 0), Item("Ikea", 3), Item("Muji", 9)>>)

\* qloo.getInsights outcomes
InsightsOutcomes == {Threw, Resolved(<<>>), InsightsRich, InsightsLateHigh}

\* the collaborator outcomes one candidate's pipeline meets
PipelineInputs ==
    [empSearch : SearchVecs, empTags : TagVecs, perSearch : SearchVecs,
     perTags : TagVecs, compare : CompareOutcomes, insights : InsightsOutcomes,
     llm : BOOLEAN]

Outcomes(es, et, ps, pt, c, i, l) ==
    [empSearch |-> es, empTags |-> et, perSearch |-> ps, perTags |-> pt,
     compare |-> c, insights |-> i, llm |-> l]

\* the outcomes met by the candidates of a whole request: every call resolves;
\* every call throws; only the comparison throws; only the insights call throws;
\* some searches throw and the rest resolve empty; every call that is reached throws
RequestInputs ==
    { Outcomes(SearchAllResolve, TagsAllResolve, SearchAllResolve, TagsAllResolve,
               CompareRich, InsightsRich, TRUE),
      Outcomes(SearchAllThrow, TagsAllThrow, SearchAllThrow, TagsAllThrow,
               Threw, Threw, FALSE),
      Outcomes(SearchAllResolve, TagsAllResolve, SearchAllResolve, TagsAllResolve,
               Threw, InsightsRich, TRUE),
      Outcomes(SearchAllResolve, TagsAllResolve, SearchAllResolve, TagsAllResolve,
               CompareRich, Threw, TRUE),
      Outcomes(SearchSomeThrow, TagsSecondThrows, SearchSomeThrow, TagsSecondThrows,
               Resolved(<<>>), Resolved(<<>>), FALSE),
      Outcomes(SearchSomeThrow, TagsSecondThrows, SearchSomeThrow, TagsSecondThrows,
               Threw, Threw, FALSE) }

(***************************************************************************)
(* CommonalityFinder: the per-candidate pipeline, as pure functions of the  *)
(* profiles and of the collaborator outcomes.                               *)
(***************************************************************************)
Statement(kind, v) == [kind |-> kind, v |-> v]

HasLocation(person) == "location" \in DOMAIN person /\ person.location # Null

\* role.toLowerCase().split(' ')
RoleWords(role) ==
    CASE role = "VP Eng"   -> <<"vp", "eng">>
      [] role = "Director" -> <<"director">>
      [] role = "Engineer" -> <<"engineer">>
      [] OTHER             -> <<>>

\* department.toLowerCase()
LowerDepartment(d) == IF d = "Engineering" THEN "engineering" ELSE "sales"

\* location.split(',')[0].toLowerCase()
LocationHead(l) == IF l = "London, UK" THEN "london" ELSE "paris"

\* person.culturalHeritage is set (an absent list and an empty list add nothing)
HasHeritage(person) == "culturalHeritage" \in DOMAIN person

\* heritage.toLowerCase(), then 'asian', 'cuisine', 'culture' for a term that
\* includes 'Asian' (no term in use includes 'Indigenous')
HeritageKeywords(term) ==
    IF term = "Asian American" THEN <<"asian american", "asian", "cuisine", "culture">>
    ELSE <<"irish">>

searchQueries(person) ==
    <<person.name, person.role, person.department>>
    \o (IF HasLocation(person) THEN <<person.location>> ELSE <<>>)
    \o (IF HasHeritage(person) THEN person.culturalHeritage ELSE <<>>)

extractInterestKeywords(person) ==
    Dedup( (IF person.role \notin {Null, ""} THEN RoleWords(person.role) ELSE <<>>)
           \o (IF person.department # Null THEN <<LowerDepartment(person.department)>> ELSE <<>>)
           \o (IF HasHeritage(person)
               THEN FlattenSeq([i \in 1..Len(person.culturalHeritage) |->
                                   HeritageKeywords(person.culturalHeritage[i])])
               ELSE <<>>)
           \o (IF HasLocation(person) THEN <<LocationHead(person.location)>> ELSE <<>>) )

\* the entity searches a gather call issues: searchQueries.slice(0, 3)
NumQueries(person) == Min2(3, Len(searchQueries(person)))
\* the tag searches it may issue: interests.slice(0, 3)
NumKeywords(person) == Min2(3, Len(extractInterestKeywords(person)))

\* index of the first tag search that throws, or n + 1
RECURSIVE FirstThrow(_, _, _)
FirstThrow(vec, i, n) ==
    IF i > n THEN n + 1
    ELSE IF ~vec[i].ok THEN i ELSE FirstThrow(vec, i + 1, n)

gatherPersonData(person, searchVec, tagVec) ==
    LET nq == NumQueries(person)
        nk == NumKeywords(person)
        stop == FirstThrow(tagVec, 1, nk)
    IN  [ entities |-> FlattenSeq([i \in 1..nq |->
                           IF searchVec[i].ok THEN searchVec[i].results ELSE <<>>]),
          tags |-> FlattenSeq([i \in 1..(stop - 1) |-> tagVec[i].results]),
          searchFailed |-> \E i \in 1..nq : ~searchVec[i].ok,
          tagsFailed |-> stop <= nk ]

ValidIds(items) == FilterSeq([i \in 1..Len(items) |-> items[i].id],
                             {items[i].id : i \in 1..Len(items)} \ {Null})

\* affinity thresholds, in tenths
InsightKeepTenths == 5
HighAffinityTenths == 7

\* the four taste sources, with the inner catch around the comparison and the
\* outer catch around everything
QlooSteps(employeeData, personData, emp, cmp, ins) ==
    LET employeeEntityIds == ValidIds(Slice0(employeeData.entities, 5))
        personEntityIds == ValidIds(Slice0(personData.entities, 5))
        compareCalled == /\ Len(employeeData.entities) > 0
                         /\ Len(personData.entities) > 0
                         /\ Len(employeeEntityIds) > 0
                         /\ Len(personEntityIds) > 0
        topResults == IF compareCalled /\ cmp.ok THEN Slice0(cmp.results, 3) ELSE <<>>
        enjoy == [i \in 1..Len(topResults) |-> Statement("Both might enjoy", topResults[i].name)]
        validEntityIds == ValidIds(Slice0(employeeData.entities, 3)
                                   \o Slice0(personData.entities, 2))
        validTagIds == ValidIds(Slice0(employeeData.tags, 3) \o Slice0(personData.tags, 2))
        insightsCalled == Len(validEntityIds) > 0 \/ Len(validTagIds) > 0
        insightsThrew == insightsCalled /\ ~ins.ok
        topInsights == IF insightsCalled /\ ins.ok THEN Slice0(ins.results, 3) ELSE <<>>
        kept == FilterSeq(topInsights,
                          {x \in Range(topInsights) : x.affinity > InsightKeepTenths})
        shared == [i \in 1..Len(kept) |-> Statement("Shared affinity for", kept[i].name)]
        employeeCategories == Dedup([i \in 1..Len(employeeData.entities) |->
                                        employeeData.entities[i].category])
        personCategories == {personData.entities[i].category :
                                i \in 1..Len(personData.entities)}
        commonCats == FilterSeq(employeeCategories, personCategories)
        employeeTagNames == Dedup([i \in 1..Len(employeeData.tags) |->
                                      employeeData.tags[i].name])
        personTagNames == {personData.tags[i].name : i \in 1..Len(personData.tags)}
        commonTags == FilterSeq(employeeTagNames, personTagNames)
        overlaps == IF insightsThrew THEN <<>>
                    ELSE [i \in 1..Len(commonCats) |->
                             Statement("Shared interest in", commonCats[i])]
                         \o [i \in 1..Len(commonTags) |->
                             Statement("Both associated with", commonTags[i])]
    IN  [ thrown |-> FALSE,
          commonInterests |-> Dedup(enjoy \o shared \o overlaps),
          affinityData |-> topResults \o kept,
          compareCalled |-> compareCalled,
          compareThrew |-> compareCalled /\ ~cmp.ok,
          insightsCalled |-> insightsCalled,
          insightsThrew |-> insightsThrew ]

\* faulty variant: the comparison's error is not caught and rejects the call
findQlooCommonalities_CompareEscapes(employeeData, personData, emp, cmp, ins) ==
    LET q == QlooSteps(employeeData, personData, emp, cmp, ins)
    IN  [q EXCEPT !.thrown = q.compareThrew]

findQlooCommonalities(employeeData, personData, emp, cmp, ins) ==
    QlooSteps(employeeData, personData, emp, cmp, ins)

findWorkplaceCommonalities(emp, person) ==
    (IF emp.department = person.department
        THEN <<Statement("Both work in", emp.department)>> ELSE <<>>)
    \o (IF IsLeadershipRole(emp.role) /\ IsLeadershipRole(person.role)
        THEN <<Statement("Similar leadership roles", "")>> ELSE <<>>)
    \o (IF emp.location # Null /\ MentionsLondon(emp.location)
        THEN <<Statement("Both based in or work with London office", "")>> ELSE <<>>)

\* areSimilarRoles calls role.toLowerCase() on both roles: a TypeError on undefined
areSimilarRolesThrows(role1, role2) == role1 = Null \/ role2 = Null

generateQlooInsights(emp, person, workplaceCommonalities, llmOk) ==
    IF llmOk THEN Statement("generated", "")
    ELSE Statement("could connect over their",
                   IF workplaceCommonalities # <<>> THEN workplaceCommonalities[1].kind
                   ELSE "work at the company")

(***************************************************************************)
(* Connection score.  The code sums IEEE-754 doubles; a score is kept here  *)
(* as 4 * tenths + r, where r in {-1, 0, 1} says whether the double the     *)
(* code computes lies one rounding step below, at, or above the double      *)
(* nearest to tenths / 10.  Equality and order of these integers are        *)
(* equality and order of the doubles.                                       *)
(***************************************************************************)
Tenths(t) == 4 * t

\* <<W, T, min(A,3), H>> for which  W*0.2 + T*0.3 + min(A*0.1, 0.3) + H*0.1,
\* summed left to right in doubles, ends above the nearest double of the exact sum
RoundedUp ==
    {<<0,0,0,3>>, <<0,0,0,6>>, <<0,0,0,7>>, <<0,0,1,2>>, <<0,0,1,6>>, <<0,0,2,1>>,
     <<0,0,2,4>>, <<0,0,2,7>>, <<0,0,3,3>>, <<0,0,3,6>>, <<0,1,0,3>>, <<0,1,0,6>>,
     <<0,1,1,2>>, <<0,1,1,3>>, <<1,0,0,1>>, <<1,0,0,4>>, <<1,0,0,7>>, <<1,0,1,0>>,
     <<1,0,1,3>>, <<1,0,1,4>>, <<1,0,1,6>>, <<1,0,2,2>>, <<1,0,2,3>>, <<2,0,0,2>>,
     <<2,0,0,3>>, <<2,0,2,0>>, <<2,0,2,1>>, <<2,0,2,3>>, <<3,0,0,0>>, <<3,0,0,1>>,
     <<3,0,0,3>>, <<3,0,1,0>>, <<3,0,1,2>>, <<3,0,3,0>>, <<3,1,0,0>>}

\* ... and those for which it ends below it
RoundedDown ==
    {<<0,2,1,1>>, <<0,2,1,2>>, <<0,2,3,0>>, <<0,2,3,1>>, <<0,3,0,0>>, <<0,3,0,1>>,
     <<0,3,1,0>>, <<1,1,2,1>>, <<1,1,2,2>>, <<2,0,3,1>>, <<2,0,3,2>>, <<2,1,0,1>>,
     <<2,1,0,2>>, <<2,1,1,0>>, <<2,1,1,1>>, <<2,1,2,0>>, <<2,1,2,1>>}

\* the score from the four counts the code reads
ScoreOfCounts(W, T, A, H) ==
    LET a == Min2(A, 3)
        t == 2 * W + 3 * T + a + H
    IN  IF t > 10 THEN Tenths(10)
        ELSE Tenths(t) + (IF <<W, T, a, H>> \in RoundedUp THEN 1
                          ELSE IF <<W, T, a, H>> \in RoundedDown THEN -1 ELSE 0)

HighAffinityCount(affinityData) ==
    Cardinality({i \in 1..Len(affinityData) : affinityData[i].affinity > HighAffinityTenths})

\* faulty variant: the final Math.min(score, 1) is missing
calculateConnectionScore_NoCap(qlooCommonalities, workplaceCommonalities) ==
    Tenths(2 * Len(workplaceCommonalities)
           + 3 * Len(qlooCommonalities.commonInterests)
           + Min2(Len(qlooCommonalities.affinityData), 3)
           + HighAffinityCount(qlooCommonalities.affinityData))

\* faulty variant: the affinity part is not limited to 0.3
calculateConnectionScore_AffinityUncapped(qlooCommonalities, workplaceCommonalities) ==
    Tenths(Min2(2 * Len(workplaceCommonalities)
                + 3 * Len(qlooCommonalities.commonInterests)
                + Len(qlooCommonalities.affinityData)
                + HighAffinityCount(qlooCommonalities.affinityData), 10))

calculateConnectionScore(qlooCommonalities, workplaceCommonalities) ==
    ScoreOfCounts(Len(workplaceCommonalities),
                  Len(qlooCommonalities.commonInterests),
                  Len(qlooCommonalities.affinityData),
                  HighAffinityCount(qlooCommonalities.affinityData))

\* faulty variant: the fallback scores 0.3
FallbackResult_HighScore(person) ==
    [ personId |-> person.id,
      personName |-> person.name,
      commonalities |-> <<Statement("Same company", "")>>,
      qlooInsights |-> Statement("Unable to fetch Qloo insights at this time", ""),
      connectionScore |-> Tenths(3) ]

\* faulty variant: the fallback carries no commonality and a zero score
FallbackResult_Empty(person) ==
    [ personId |-> person.id,
      personName |-> person.name,
      commonalities |-> <<>>,
      qlooInsights |-> Statement("Unable to fetch Qloo insights at this time", ""),
      connectionScore |-> 0 ]

FallbackResult(person) ==
    [ personId |-> person.id,
      personName |-> person.name,
      commonalities |-> <<Statement("Same company", "")>>,
      qlooInsights |-> Statement("Unable to fetch Qloo insights at this time", ""),
      connectionScore |-> Tenths(1) ]

\* what a rejected promise carries instead of a result
NoResult ==
    [ personId |-> Null, personName |-> Null, commonalities |-> <<>>,
      qlooInsights |-> Statement("", ""), connectionScore |-> 0 ]

\* the calls that threw while one candidate was processed
NoCalls == [threw |-> FALSE, failed |-> {}, compareCalled |-> FALSE]

findPersonCommonalities(emp, person, in) ==
    LET workplaceCommonalities == findWorkplaceCommonalities(emp, person)
        employeeData == gatherPersonData(emp, in.empSearch, in.empTags)
        personData == gatherPersonData(person, in.perSearch, in.perTags)
        q == findQlooCommonalities(employeeData, personData, emp, in.compare, in.insights)
        qlooInsights == generateQlooInsights(emp, person, workplaceCommonalities, in.llm)
    IN
    IF areSimilarRolesThrows(emp.role, person.role)
    THEN [thrown |-> TRUE, value |-> NoResult,
          calls |-> [NoCalls EXCEPT !.threw = TRUE]]
    ELSE IF q.thrown
    THEN [thrown |-> TRUE, value |-> NoResult,
          calls |-> [NoCalls EXCEPT !.threw = TRUE,
                                    !.failed = (IF q.compareThrew THEN {"compareAnalysis"} ELSE {})
                                               \cup (IF q.insightsThrew THEN {"getInsights"} ELSE {}),
                                    !.compareCalled = q.compareCalled]]
    ELSE
        [ thrown |-> FALSE,
          value |-> [ personId |-> person.id,
                      personName |-> person.name,
                      commonalities |-> workplaceCommonalities \o q.commonInterests,
                      qlooInsights |-> qlooInsights,
                      connectionScore |-> calculateConnectionScore(q, workplaceCommonalities) ],
          calls |-> [ threw |-> FALSE,
                      failed |->
                          (IF employeeData.searchFailed \/ personData.searchFailed
                              THEN {"search"} ELSE {})
                          \cup (IF employeeData.tagsFailed \/ personData.tagsFailed
                              THEN {"searchTags"} ELSE {})
                          \cup (IF q.compareThrew THEN {"compareAnalysis"} ELSE {})
                          \cup (IF q.insightsThrew THEN {"getInsights"} ELSE {})
                          \cup (IF ~in.llm THEN {"generateText"} ELSE {}),
                      compareCalled |-> q.compareCalled ] ]

\* faulty variant: a candidate whose pipeline throws is skipped
TryPerson_OmitOnThrow(emp, person, in) ==
    LET r == findPersonCommonalities(emp, person, in)
    IN  [ thrown |-> FALSE,
          pushed |-> IF r.thrown THEN <<>> ELSE <<r.value>>,
          calls |-> r.calls ]

\* faulty variant: no try/catch around the pipeline
TryPerson_Rethrow(emp, person, in) ==
    LET r == findPersonCommonalities(emp, person, in)
    IN  [ thrown |-> r.thrown,
          pushed |-> IF r.thrown THEN <<>> ELSE <<r.value>>,
          calls |-> r.calls ]

\* one pass of the loop body of findCommonalities: try the pipeline, catch
\* whatever it throws and push the fallback result instead
TryPerson(emp, person, in) ==
    LET r == findPersonCommonalities(emp, person, in)
    IN  [ thrown |-> FALSE,
          pushed |-> IF r.thrown THEN <<FallbackResult(person)>> ELSE <<r.value>>,
          calls |-> r.calls ]

(***************************************************************************)
(* Array.prototype.sort((a, b) => b.connectionScore - a.connectionScore):   *)
(* a stable sort, highest score first.                                      *)
(***************************************************************************)
RECURSIVE InsertByScore_Unstable(_, _)
\* faulty variant: an unstable sort, x goes before the elements of equal score
InsertByScore_Unstable(sorted, x) ==
    IF sorted = <<>> THEN <<x>>
    ELSE IF Head(sorted).connectionScore > x.connectionScore
         THEN <<Head(sorted)>> \o InsertByScore_Unstable(Tail(sorted), x)
         ELSE <<x>> \o sorted

RECURSIVE InsertByScore(_, _)
\* x goes after every element whose score is not lower than its own
InsertByScore(sorted, x) ==
    IF sorted = <<>> THEN <<x>>
    ELSE IF Head(sorted).connectionScore >= x.connectionScore
         THEN <<Head(sorted)>> \o InsertByScore(Tail(sorted), x)
         ELSE <<x>> \o sorted

RECURSIVE SortFrom(_, _)
SortFrom(done, rest) ==
    IF rest = <<>> THEN done
    ELSE SortFrom(InsertByScore(done, Head(rest)), Tail(rest))

\* results.sort(...) at the end of findCommonalities
sortResults(rs) == SortFrom(<<>>, rs)

\* faulty variant: the people list is returned as mapped, unsorted
sortEnhancedPeople_Unsorted(ps) == ps

\* enhancedPeople.sort(...) in the request handler
sortEnhancedPeople(ps) == SortFrom(<<>>, ps)

\* commonalities.find(c => c.personId === person.id): index of the first match, or 0
RECURSIVE FindIndex(_, _, _)
FindIndex(cs, id, i) ==
    IF i > Len(cs) THEN 0
    ELSE IF cs[i].personId = id THEN i ELSE FindIndex(cs, id, i + 1)

enhancePerson(person, cs) ==
    LET k == FindIndex(cs, person.id, 1)
    IN  [ id |-> person.id, name |-> person.name, email |-> person.email,
          department |-> person.department, role |-> person.role,
          qlooCommonalities |-> IF k = 0 THEN <<>> ELSE cs[k].commonalities,
          qlooInsights |-> IF k = 0 THEN Statement("", "") ELSE cs[k].qlooInsights,
          connectionScore |-> IF k = 0 THEN 0 ELSE cs[k].connectionScore ]

(***************************************************************************)
(* POST /introductions: scoring, then the ranked people list                *)
(***************************************************************************)
InitScore ==
    /\ pipe = Null
    /\ calc = Null
    /\ now = 0 /\ redis = Null /\ h = Null /\ received = 0 /\ rt = Null
    /\ chat = Null /\ memory = Null /\ dlv = Null /\ fn = Null
    /\ employee \in EmployeePool
    /\ people \in SeqsUpTo(PersonPool, MaxPeople)
    /\ ipc = "score"
    /\ idx = 1
    /\ results = <<>>
    /\ lastIn = NoCalls
    /\ commonalities = <<>>
    /\ enhancedPeople = <<>>

\* findCommonalities, one candidate of the for loop
ScorePerson ==
    /\ ipc = "score"
    /\ idx <= Len(people)
    /\ \E in \in RequestInputs :
          LET t == TryPerson(employee, people[idx], in)
          IN  /\ results' = results \o t.pushed
              /\ lastIn' = t.calls
              /\ IF t.thrown
                    THEN ipc' = "error500" /\ idx' = idx
                    ELSE ipc' = ipc /\ idx' = idx + 1
    /\ UNCHANGED <<employee, people, commonalities, enhancedPeople>>

\* findCommonalities, after the loop: sort and resolve
SortResults ==
    /\ ipc = "score"
    /\ idx > Len(people)
    /\ commonalities' = sortResults(results)
    /\ ipc' = "enhance"
    /\ UNCHANGED <<employee, people, idx, results, lastIn, enhancedPeople>>

\* the handler maps the request's people onto their results and sorts them
EnhancePeople ==
    /\ ipc = "enhance"
    /\ enhancedPeople' = sortEnhancedPeople(
           [i \in 1..Len(people) |-> enhancePerson(people[i], commonalities)])
    /\ ipc' = "respond"
    /\ UNCHANGED <<employee, people, idx, results, lastIn, commonalities>>

NextScore ==
    \/ (ScorePerson /\ UNCHANGED <<pipe, calc, chat, memory, dlv, fn>> /\ UNCHANGED housingVars)
    \/ (SortResults /\ UNCHANGED <<pipe, calc, chat, memory, dlv, fn>> /\ UNCHANGED housingVars)
    \/ (EnhancePeople /\ UNCHANGED <<pipe, calc, chat, memory, dlv, fn>> /\ UNCHANGED housingVars)

SpecScore == InitScore /\ [][NextScore]_vars

(***************************************************************************)
(* findCommonalities on a single candidate, against every combination of    *)
(* collaborator outcomes                                                    *)
(***************************************************************************)
InitPipeline ==
    /\ employee = Null /\ people = <<>> /\ ipc = "idle" /\ idx = 1
    /\ results = <<>> /\ lastIn = NoCalls /\ commonalities = <<>>
    /\ enhancedPeople = <<>>
    /\ calc = Null
    /\ now = 0 /\ redis = Null /\ h = Null /\ received = 0 /\ rt = Null
    /\ chat = Null /\ memory = Null /\ dlv = Null /\ fn = Null
    /\ pipe \in [emp : EmployeePool, person : PersonPool, in : PipelineInputs,
                 done : {FALSE}, thrown : {FALSE}, out : {<<>>}, calls : {NoCalls}]

RunPipeline ==
    /\ ~pipe.done
    /\ LET t == TryPerson(pipe.emp, pipe.person, pipe.in)
       IN  pipe' = [pipe EXCEPT !.done = TRUE,
                                !.thrown = t.thrown,
                                !.out = IF t.thrown THEN <<>>
                                        ELSE sortResults(t.pushed),
                                !.calls = t.calls]
    /\ UNCHANGED <<employee, people, ipc, idx, results, lastIn, commonalities,
                   enhancedPeople, calc>>
    /\ UNCHANGED housingVars
    /\ UNCHANGED <<chat, memory, dlv, fn>>

NextPipeline == RunPipeline

SpecPipeline == InitPipeline /\ [][NextPipeline]_vars

(***************************************************************************)
(* calculateConnectionScore on lists of given sizes                         *)
(***************************************************************************)
WorkplaceOfSize(W) == [i \in 1..W |-> Statement("workplace", "")]

QlooOfSize(T, A, H) ==
    [ commonInterests |-> [i \in 1..T |-> Statement("taste", "")],
      affinityData |-> [i \in 1..A |-> Item("x", IF i <= H THEN 9 ELSE 3)] ]

ScoreAt(W, T, A, H) == calculateConnectionScore(QlooOfSize(T, A, H), WorkplaceOfSize(W))

InitCalc ==
    /\ employee = Null /\ people = <<>> /\ ipc = "idle" /\ idx = 1
    /\ results = <<>> /\ lastIn = NoCalls /\ commonalities = <<>>
    /\ enhancedPeople = <<>>
    /\ pipe = Null
    /\ now = 0 /\ redis = Null /\ h = Null /\ received = 0 /\ rt = Null
    /\ chat = Null /\ memory = Null /\ dlv = Null /\ fn = Null
    /\ \E W \in 0..MaxCount, T \in 0..MaxCount, A \in 0..MaxCount :
          \E H \in 0..A :
             calc = [W |-> W, T |-> T, A |-> A, H |-> H, done |-> FALSE,
                     score |-> 0, moreW |-> 0, moreT |-> 0, moreA |-> 0, moreHigh |-> 0]

\* the score of the drawn sizes, and with one more item of each kind
ComputeScores ==
    /\ ~calc.done
    /\ calc' = [calc EXCEPT
                  !.done = TRUE,
                  !.score = ScoreAt(calc.W, calc.T, calc.A, calc.H),
                  !.moreW = ScoreAt(calc.W + 1, calc.T, calc.A, calc.H),
                  !.moreT = ScoreAt(calc.W, calc.T + 1, calc.A, calc.H),
                  !.moreA = ScoreAt(calc.W, calc.T, calc.A + 1, calc.H),
                  !.moreHigh = ScoreAt(calc.W, calc.T, calc.A + 1, calc.H + 1)]
    /\ UNCHANGED <<employee, people, ipc, idx, results, lastIn, commonalities,
                   enhancedPeople, pipe>>
    /\ UNCHANGED housingVars
    /\ UNCHANGED <<chat, memory, dlv, fn>>

NextCalc == ComputeScores

SpecCalc == InitCalc /\ [][NextCalc]_vars

(***************************************************************************)
(* ConversationStateService on its store.  A stored record carries the      *)
(* expiry the store gave it (SETEX key ttl value).  Time is in seconds and  *)
(* advances by one staleness window at a time, so a record is read at the   *)
(* age of zero, one or more windows.                                        *)
(***************************************************************************)
STATE_TTL == 10 * 60
TickSeconds == STATE_TTL

Users == {"U1"}
Channels == {Null, "C1"}

getStateKey(userId, channelId) ==
    IF channelId # Null THEN "state:housing:" \o channelId \o ":" \o userId
    ELSE "state:housing:dm:" \o userId

Keys == {getStateKey(u, c) : u \in Users, c \in Channels}

NoDemographics == [age |-> Null, ethnicity |-> Null]

\* null: no state
Absent ==
    [ present |-> FALSE, stage |-> Null, location |-> Null,
      demographics |-> NoDemographics, preferences |-> <<>>, timestamp |-> 0 ]

StateFields == {"stage", "location", "demographics", "preferences"}

\* the store answers every call of the state service
StoreOutcomes == {TRUE}

EmptySlot == [val |-> Absent, exp |-> 0]

\* redis.get(key): the value, unless the key was never set, was deleted or expired
redisGet(store, key, t) ==
    IF store[key].val.present /\ t < store[key].exp THEN store[key].val ELSE Absent

\* redis.setex(key, STATE_TTL, value)
redisSetex(store, key, value, t) ==
    [store EXCEPT ![key] = [val |-> value, exp |-> t + STATE_TTL]]

\* faulty variant: the deletion empties the whole store
redisDel_FlushesAll(store, key) == [k \in DOMAIN store |-> EmptySlot]

\* redis.del(key)
redisDel(store, key) == [store EXCEPT ![key] = EmptySlot]

\* faulty variant: no record is ever too old
isStateExpired_Never(state, t) == FALSE

\* Date.now() - state.timestamp > STATE_TTL * 1000
isStateExpired(state, t) == t - state.timestamp > STATE_TTL

\* getHousingState once redis.get has answered: the record it goes on with and
\* whether it first clears the key
getHousingState(store, key, t, ok) ==
    LET state == IF ok THEN redisGet(store, key, t) ELSE Absent
    IN  IF ~state.present THEN [raw |-> state, state |-> Absent, purge |-> FALSE]
        ELSE IF isStateExpired(state, t)
             THEN [raw |-> state, state |-> Absent, purge |-> TRUE]
             ELSE [raw |-> state, state |-> state, purge |-> FALSE]

\* setHousingState: the store after the call (a failed write is swallowed)
setHousingState(store, key, state, t, ok) ==
    IF ok THEN redisSetex(store, key, state, t) ELSE store

\* clearHousingState: the store after the call (a failed delete is swallowed)
clearHousingState(store, key, ok) ==
    IF ok THEN redisDel(store, key) ELSE store

\* faulty variant: the updates are dropped, only the timestamp is refreshed
mergeState_KeepsCurrent(currentState, updates, t) ==
    [currentState EXCEPT !.timestamp = t]

\* { ...currentState, ...updates, timestamp: Date.now() }
mergeState(currentState, updates, t) ==
    [ present |-> TRUE,
      stage |-> IF "stage" \in updates.fields THEN updates.val.stage
                ELSE currentState.stage,
      location |-> IF "location" \in updates.fields THEN updates.val.location
                   ELSE currentState.location,
      demographics |-> IF "demographics" \in updates.fields THEN updates.val.demographics
                       ELSE currentState.demographics,
      preferences |-> IF "preferences" \in updates.fields THEN updates.val.preferences
                      ELSE currentState.preferences,
      timestamp |-> t ]

Updates(fields, stage, location, demographics, preferences) ==
    [ fields |-> fields,
      val |-> [stage |-> stage, location |-> location, demographics |-> demographics,
               preferences |-> preferences] ]

NoUpdates == Updates({}, Null, Null, NoDemographics, <<>>)

(***************************************************************************)
(* HousingService.handleHousingConversation.  One message is handled by     *)
(* one handler; a handler stands at the call it awaits, and a step is the   *)
(* answer to that call followed by the code up to the next awaited call.    *)
(***************************************************************************)
\* messages in flight at once; a message takes the first free handler
Handlers == {1, 2}

Messages == {"moving to Seattle", "Seattle", "?? housing ??", "42!"}

\* housingKeywords.some(keyword => lowerMessage.includes(keyword))
isHousingQuery(message) == message \in {"moving to Seattle", "?? housing ??"}

\* the three patterns, then the known cities
extractLocation(message) ==
    IF message \in {"moving to Seattle", "Seattle"} THEN "Seattle" ELSE Null

PromptForLocation == "Where are you looking to move to?"
RepromptForLocation == "I didn't catch the location."
Recommendations == "recommendations"
HousingApology == "I apologize, but I had trouble getting housing recommendations."

IdleHandler ==
    [ pc |-> "idle", key |-> Null, message |-> Null,
      raw |-> Absent, readAt |-> 0, state |-> Absent, purged |-> FALSE,
      updateRaw |-> Absent, updateAt |-> 0, currentState |-> Absent,
      updates |-> NoUpdates, pending |-> Absent, location |-> Null,
      pipeline |-> "none", response |-> Null, continueFlow |-> FALSE ]

Return(hx, response, continueFlow) ==
    [hx EXCEPT !.pc = "done", !.response = response, !.continueFlow = continueFlow,
               !.updateRaw = Absent, !.updateAt = 0, !.currentState = Absent,
               !.updates = NoUpdates, !.pending = Absent, !.location = Null]

\* faulty variant: a first message that names a location goes straight to the
\* location stage
NoStateBranch_UsesLocation(hx, t) ==
    IF ~isHousingQuery(hx.message) THEN Return(hx, "", FALSE)
    ELSE IF extractLocation(hx.message) # Null
    THEN [hx EXCEPT !.pc = "updateHousingState", !.location = extractLocation(hx.message),
                    !.updates = Updates(StateFields, "complete",
                                        extractLocation(hx.message),
                                        [age |-> "25", ethnicity |-> Null], <<"vibrant">>)]
    ELSE [hx EXCEPT !.pc = "setHousingState",
                    !.pending = [Absent EXCEPT !.present = TRUE, !.stage = "detected",
                                               !.timestamp = t]]

\* faulty variant: the conversation is created at stage 'awaiting_location'
NoStateBranch_AwaitsLocation(hx, t) ==
    IF ~isHousingQuery(hx.message) THEN Return(hx, "", FALSE)
    ELSE [hx EXCEPT !.pc = "setHousingState",
                    !.pending = [Absent EXCEPT !.present = TRUE,
                                               !.stage = "awaiting_location",
                                               !.timestamp = t]]

\* if (!state): not a housing query, or the 'detected' state is created
NoStateBranch(hx, t) ==
    IF ~isHousingQuery(hx.message) THEN Return(hx, "", FALSE)
    ELSE [hx EXCEPT !.pc = "setHousingState",
                    !.pending = [Absent EXCEPT !.present = TRUE, !.stage = "detected",
                                               !.timestamp = t]]

\* faulty variant: a re-prompt rewrites the state, which restarts its window
handleLocationStage_RepromptRefreshes(hx) ==
    LET location == extractLocation(hx.message)
    IN  IF location = Null
        THEN [hx EXCEPT !.pc = "updateHousingState", !.updates = NoUpdates]
        ELSE [hx EXCEPT !.pc = "updateHousingState", !.location = location,
                        !.updates = Updates(StateFields, "complete", location,
                                            [age |-> "25", ethnicity |-> Null],
                                            <<"vibrant">>)]

\* faulty variant: the recommendations are requested without the update
handleLocationStage_SkipsUpdate(hx) ==
    LET location == extractLocation(hx.message)
    IN  IF location = Null THEN Return(hx, RepromptForLocation, TRUE)
        ELSE [hx EXCEPT !.pc = "getHousingRecommendations", !.location = location,
                        !.updates = Updates(StateFields, "complete", location,
                                            [age |-> "25", ethnicity |-> Null],
                                            <<"vibrant">>)]

\* faulty variant: the re-prompt ends the dialogue
handleLocationStage_RepromptEnds(hx) ==
    LET location == extractLocation(hx.message)
    IN  IF location = Null THEN Return(hx, RepromptForLocation, FALSE)
        ELSE [hx EXCEPT !.pc = "updateHousingState", !.location = location,
                        !.updates = Updates(StateFields, "complete", location,
                                            [age |-> "25", ethnicity |-> Null],
                                            <<"vibrant">>)]

\* handleLocationStage up to its updateHousingState call
handleLocationStage(hx) ==
    LET location == extractLocation(hx.message)
    IN  IF location = Null THEN Return(hx, RepromptForLocation, TRUE)
        ELSE [hx EXCEPT !.pc = "updateHousingState", !.location = location,
                        !.updates = Updates(StateFields, "complete", location,
                                            [age |-> "25", ethnicity |-> Null],
                                            <<"vibrant">>)]

\* faulty variant: the placeholders replace what was collected
handlePreferencesStage_DropsCollected(hx, state) ==
    [hx EXCEPT !.pc = "updateHousingState", !.location = state.location,
               !.updates = Updates({"stage", "demographics", "preferences"}, "complete",
                                   Null,
                                   [age |-> "25", ethnicity |-> Null],
                                   <<"vibrant">>)]

\* handlePreferencesStage up to its updateHousingState call
handlePreferencesStage(hx, state) ==
    [hx EXCEPT !.pc = "updateHousingState", !.location = state.location,
               !.updates = Updates({"stage", "demographics", "preferences"}, "complete",
                                   Null,
                                   [state.demographics EXCEPT !.age = "25"],
                                   state.preferences \o <<"vibrant">>)]

\* switch (state.stage)
StageSwitch(hx, state) ==
    CASE state.stage \in {"detected", "awaiting_location"} -> handleLocationStage(hx)
      [] state.stage = "awaiting_preferences" -> handlePreferencesStage(hx, state)
      [] OTHER -> Return(hx, "", FALSE)

\* a message arrives for a user in a channel or a direct message
Receive(x) ==
    /\ h[x].pc \in {"idle", "done"}
    /\ \A y \in Handlers : y < x => h[y].pc \notin {"idle", "done"}
    /\ received < MaxMessages
    /\ \E u \in Users, c \in Channels, m \in Messages :
          h' = [h EXCEPT ![x] = [IdleHandler EXCEPT !.pc = "getHousingState",
                                                    !.key = getStateKey(u, c),
                                                    !.message = m]]
    /\ received' = received + 1
    /\ UNCHANGED <<now, redis, rt>>

\* getHousingState answers handleHousingConversation
EntryGet(x) ==
    /\ h[x].pc = "getHousingState"
    /\ \E ok \in StoreOutcomes :
          LET r == getHousingState(redis, h[x].key, now, ok)
              hx == [h[x] EXCEPT !.raw = r.raw, !.readAt = now, !.state = r.state]
          IN  h' = [h EXCEPT ![x] =
                       IF r.purge THEN [hx EXCEPT !.pc = "purge"]
                       ELSE IF ~r.state.present THEN NoStateBranch(hx, now)
                       ELSE StageSwitch(hx, r.state)]
    /\ UNCHANGED <<now, redis, received, rt>>

\* the stale record is cleared and the handler goes on without a state
EntryPurge(x) ==
    /\ h[x].pc = "purge"
    /\ \E ok \in StoreOutcomes :
          /\ redis' = clearHousingState(redis, h[x].key, ok)
          /\ h' = [h EXCEPT ![x] =
                      NoStateBranch([h[x] EXCEPT !.purged = ~redis'[h[x].key].val.present],
                                    now)]
    /\ UNCHANGED <<now, received, rt>>

\* setHousingState({stage: 'detected'}) answers; the user is asked for a location
SetDetected(x) ==
    /\ h[x].pc = "setHousingState"
    /\ \E ok \in StoreOutcomes :
          redis' = setHousingState(redis, h[x].key, h[x].pending, now, ok)
    /\ h' = [h EXCEPT ![x] = Return(h[x], PromptForLocation, TRUE)]
    /\ UNCHANGED <<now, received, rt>>

\* updateHousingState reads the current state
UpdateGet(x) ==
    /\ h[x].pc = "updateHousingState"
    /\ \E ok \in StoreOutcomes :
          LET r == getHousingState(redis, h[x].key, now, ok)
              hx == [h[x] EXCEPT !.updateRaw = r.raw, !.updateAt = now,
                                 !.currentState = r.state]
          IN  h' = [h EXCEPT ![x] =
                       IF r.purge THEN [hx EXCEPT !.pc = "updatePurge"]
                       ELSE IF ~r.state.present
                            THEN [hx EXCEPT !.pc = "getHousingRecommendations"]
                            ELSE [hx EXCEPT !.pc = "updateWrite",
                                            !.pending = mergeState(r.state, hx.updates, now)]]
    /\ UNCHANGED <<now, redis, received, rt>>

\* updateHousingState found a stale record: it is cleared, nothing is written
UpdatePurge(x) ==
    /\ h[x].pc = "updatePurge"
    /\ \E ok \in StoreOutcomes : redis' = clearHousingState(redis, h[x].key, ok)
    /\ h' = [h EXCEPT ![x].pc = "getHousingRecommendations"]
    /\ UNCHANGED <<now, received, rt>>

\* updateHousingState writes the merged state
UpdateWrite(x) ==
    /\ h[x].pc = "updateWrite"
    /\ \E ok \in StoreOutcomes :
          redis' = setHousingState(redis, h[x].key, h[x].pending, now, ok)
    /\ h' = [h EXCEPT ![x].pc = "getHousingRecommendations"]
    /\ UNCHANGED <<now, received, rt>>

\* getHousingRecommendations and generateHousingResponse answer or throw
Recommend(x) ==
    /\ h[x].pc = "getHousingRecommendations"
    /\ \E ok \in BOOLEAN :
          h' = [h EXCEPT ![x].pc = "clearHousingState",
                         ![x].pipeline = IF ok THEN "resolved" ELSE "threw",
                         ![x].response = IF ok THEN Recommendations ELSE HousingApology]
    /\ UNCHANGED <<now, redis, received, rt>>

\* faulty variant: the catch returns the apology without clearing the state
ClearState_OnlyOnSuccess(x) ==
    /\ h[x].pc = "clearHousingState"
    /\ \E ok \in StoreOutcomes :
          redis' = IF h[x].pipeline = "threw" THEN redis
                   ELSE clearHousingState(redis, h[x].key, ok)
    /\ h' = [h EXCEPT ![x] = Return(h[x], h[x].response, FALSE)]
    /\ UNCHANGED <<now, received, rt>>

\* clearHousingState in the try and in the catch, then the reply
ClearState(x) ==
    /\ h[x].pc = "clearHousingState"
    /\ \E ok \in StoreOutcomes : redis' = clearHousingState(redis, h[x].key, ok)
    /\ h' = [h EXCEPT ![x] = Return(h[x], h[x].response, FALSE)]
    /\ UNCHANGED <<now, received, rt>>

\* time passes
Tick ==
    /\ now + TickSeconds <= MaxTicks * TickSeconds
    /\ now' = now + TickSeconds
    /\ UNCHANGED <<redis, h, received, rt>>

IdleRoundTrip ==
    [ pc |-> "idle", key |-> Null, created |-> Absent, updates |-> NoUpdates,
      setAt |-> 0, updateAt |-> 0, updated |-> Absent, writeAt |-> 0,
      readAt |-> 0, read |-> Absent, readAgain |-> Absent ]

InitHousing ==
    /\ employee = Null /\ people = <<>> /\ ipc = Null /\ idx = 0
    /\ results = <<>> /\ lastIn = Null /\ commonalities = <<>> /\ enhancedPeople = <<>>
    /\ pipe = Null /\ calc = Null
    /\ now = 0
    /\ redis = [k \in Keys |-> EmptySlot]
    /\ h = [x \in Handlers |-> IdleHandler]
    /\ received = 0
    /\ chat = Null /\ memory = Null /\ dlv = Null /\ fn = Null
    /\ rt = IdleRoundTrip

NextHousing ==
    \/ \E x \in Handlers : Receive(x) /\ UNCHANGED scoreVars /\ UNCHANGED <<pipe, calc, chat, memory, dlv, fn>>
    \/ \E x \in Handlers : EntryGet(x) /\ UNCHANGED scoreVars /\ UNCHANGED <<pipe, calc, chat, memory, dlv, fn>>
    \/ \E x \in Handlers : EntryPurge(x) /\ UNCHANGED scoreVars /\ UNCHANGED <<pipe, calc, chat, memory, dlv, fn>>
    \/ \E x \in Handlers : SetDetected(x) /\ UNCHANGED scoreVars /\ UNCHANGED <<pipe, calc, chat, memory, dlv, fn>>
    \/ \E x \in Handlers : UpdateGet(x) /\ UNCHANGED scoreVars /\ UNCHANGED <<pipe, calc, chat, memory, dlv, fn>>
    \/ \E x \in Handlers : UpdatePurge(x) /\ UNCHANGED scoreVars /\ UNCHANGED <<pipe, calc, chat, memory, dlv, fn>>
    \/ \E x \in Handlers : UpdateWrite(x) /\ UNCHANGED scoreVars /\ UNCHANGED <<pipe, calc, chat, memory, dlv, fn>>
    \/ \E x \in Handlers : Recommend(x) /\ UNCHANGED scoreVars /\ UNCHANGED <<pipe, calc, chat, memory, dlv, fn>>
    \/ \E x \in Handlers : ClearState(x) /\ UNCHANGED scoreVars /\ UNCHANGED <<pipe, calc, chat, memory, dlv, fn>>
    \/ Tick /\ UNCHANGED scoreVars /\ UNCHANGED <<pipe, calc, chat, memory, dlv, fn>>

SpecHousing == InitHousing /\ [][NextHousing]_vars

(***************************************************************************)
(* The state service called in sequence for one key: setHousingState,       *)
(* updateHousingState, getHousingState, clearHousingState, getHousingState. *)
(***************************************************************************)
CreatedStates ==
    { [Absent EXCEPT !.present = TRUE, !.stage = "detected"],
      [Absent EXCEPT !.present = TRUE, !.stage = "awaiting_preferences",
                     !.location = "Austin",
                     !.demographics = [age |-> Null, ethnicity |-> "asian"],
                     !.preferences = <<"quiet">>] }

UpdateInputs ==
    { Updates(StateFields, "complete", "Seattle", [age |-> "25", ethnicity |-> Null],
              <<"vibrant">>),
      Updates({"stage", "demographics", "preferences"}, "complete", Null,
              [age |-> "25", ethnicity |-> "asian"], <<"quiet", "vibrant">>),
      Updates({"stage"}, "awaiting_location", Null, NoDemographics, <<>>) }

InitRoundTrip ==
    /\ employee = Null /\ people = <<>> /\ ipc = Null /\ idx = 0
    /\ results = <<>> /\ lastIn = Null /\ commonalities = <<>> /\ enhancedPeople = <<>>
    /\ pipe = Null /\ calc = Null
    /\ now = 0
    /\ redis = [k \in Keys |-> EmptySlot]
    /\ h = [x \in Handlers |-> IdleHandler]
    /\ received = 0
    /\ chat = Null /\ memory = Null /\ dlv = Null /\ fn = Null
    /\ \E u \in Users, c \in Channels, created \in CreatedStates, updates \in UpdateInputs :
          rt = [IdleRoundTrip EXCEPT !.pc = "setHousingState", !.key = getStateKey(u, c),
                                     !.created = created, !.updates = updates]

\* setHousingState(created)
RoundTripSet ==
    /\ rt.pc = "setHousingState"
    /\ \E ok \in StoreOutcomes :
          redis' = setHousingState(redis, rt.key, rt.created, now, ok)
    /\ rt' = [rt EXCEPT !.pc = "updateHousingState", !.setAt = now]
    /\ UNCHANGED <<now, h, received>>

\* updateHousingState(updates) reads the current state
RoundTripUpdateGet ==
    /\ rt.pc = "updateHousingState"
    /\ \E ok \in StoreOutcomes :
          LET r == getHousingState(redis, rt.key, now, ok)
          IN  rt' = IF r.purge THEN [rt EXCEPT !.pc = "updatePurge", !.updateAt = now]
                    ELSE IF ~r.state.present
                         THEN [rt EXCEPT !.pc = "getHousingState", !.updateAt = now]
                         ELSE [rt EXCEPT !.pc = "updateWrite", !.updateAt = now,
                                         !.updated = mergeState(r.state, rt.updates, now)]
    /\ UNCHANGED <<now, redis, h, received>>

\* updateHousingState writes the merged state
RoundTripUpdateWrite ==
    /\ rt.pc = "updateWrite"
    /\ \E ok \in StoreOutcomes :
          redis' = setHousingState(redis, rt.key, rt.updated, now, ok)
    /\ rt' = [rt EXCEPT !.pc = "getHousingState", !.writeAt = now]
    /\ UNCHANGED <<now, h, received>>

\* getHousingState
RoundTripGet ==
    /\ rt.pc = "getHousingState"
    /\ \E ok \in StoreOutcomes :
          LET r == getHousingState(redis, rt.key, now, ok)
          IN  rt' = [rt EXCEPT !.pc = IF r.purge THEN "getPurge" ELSE "clearHousingState",
                               !.readAt = now, !.read = r.state]
    /\ UNCHANGED <<now, redis, h, received>>

\* a read that found a stale record clears it before it answers
RoundTripPurge ==
    /\ rt.pc \in {"updatePurge", "getPurge"}
    /\ \E ok \in StoreOutcomes : redis' = clearHousingState(redis, rt.key, ok)
    /\ rt' = [rt EXCEPT !.pc = IF rt.pc = "updatePurge" THEN "getHousingState"
                               ELSE "clearHousingState"]
    /\ UNCHANGED <<now, h, received>>

\* clearHousingState
RoundTripClear ==
    /\ rt.pc = "clearHousingState"
    /\ \E ok \in StoreOutcomes : redis' = clearHousingState(redis, rt.key, ok)
    /\ rt' = [rt EXCEPT !.pc = "getAgain"]
    /\ UNCHANGED <<now, h, received>>

\* getHousingState after the clear
RoundTripGetAgain ==
    /\ rt.pc = "getAgain"
    /\ \E ok \in StoreOutcomes :
          LET r == getHousingState(redis, rt.key, now, ok)
          IN  rt' = [rt EXCEPT !.pc = "done", !.readAgain = r.state]
    /\ UNCHANGED <<now, redis, h, received>>

NextRoundTrip ==
    \/ RoundTripSet /\ UNCHANGED scoreVars /\ UNCHANGED <<pipe, calc, chat, memory, dlv, fn>>
    \/ RoundTripUpdateGet /\ UNCHANGED scoreVars /\ UNCHANGED <<pipe, calc, chat, memory, dlv, fn>>
    \/ RoundTripUpdateWrite /\ UNCHANGED scoreVars /\ UNCHANGED <<pipe, calc, chat, memory, dlv, fn>>
    \/ RoundTripGet /\ UNCHANGED scoreVars /\ UNCHANGED <<pipe, calc, chat, memory, dlv, fn>>
    \/ RoundTripPurge /\ UNCHANGED scoreVars /\ UNCHANGED <<pipe, calc, chat, memory, dlv, fn>>
    \/ RoundTripClear /\ UNCHANGED scoreVars /\ UNCHANGED <<pipe, calc, chat, memory, dlv, fn>>
    \/ RoundTripGetAgain /\ UNCHANGED scoreVars /\ UNCHANGED <<pipe, calc, chat, memory, dlv, fn>>
    \/ Tick /\ UNCHANGED scoreVars /\ UNCHANGED <<pipe, calc, chat, memory, dlv, fn>>

SpecRoundTrip == InitRoundTrip /\ [][NextRoundTrip]_vars

(***************************************************************************)
(* The housing conversation on a store that holds a state of stage          *)
(* 'awaiting_preferences' (a stage of HousingConversationState that this    *)
(* version of the controller reads but never writes), within one staleness  *)
(* window.                                                                  *)
(***************************************************************************)
PreferencesKey == getStateKey("U1", Null)

\* the records of stage 'awaiting_preferences' the store may hold
AwaitingPreferences ==
    { [ present |-> TRUE, stage |-> "awaiting_preferences", location |-> "Austin",
        demographics |-> [age |-> a, ethnicity |-> e], preferences |-> p,
        timestamp |-> 0 ] :
        a \in {Null, "30"}, e \in {Null, "asian"}, p \in {<<>>, <<"quiet">>} }

InitPreferences ==
    /\ employee = Null /\ people = <<>> /\ ipc = Null /\ idx = 0
    /\ results = <<>> /\ lastIn = Null /\ commonalities = <<>> /\ enhancedPeople = <<>>
    /\ pipe = Null /\ calc = Null
    /\ now = 0
    /\ \E state \in AwaitingPreferences :
          redis = [k \in Keys |-> IF k = PreferencesKey
                                  THEN [val |-> state, exp |-> STATE_TTL]
                                  ELSE EmptySlot]
    /\ h = [x \in Handlers |-> IdleHandler]
    /\ received = 0
    /\ chat = Null /\ memory = Null /\ dlv = Null /\ fn = Null
    /\ rt = IdleRoundTrip

\* a message arrives for a user in a channel or a direct message
PreferencesReceive(x) ==
    /\ h[x].pc \in {"idle", "done"}
    /\ \A y \in Handlers : y < x => h[y].pc \notin {"idle", "done"}
    /\ received < MaxPrefMessages
    /\ \E u \in Users, c \in Channels, m \in Messages :
          h' = [h EXCEPT ![x] = [IdleHandler EXCEPT !.pc = "getHousingState",
                                                    !.key = getStateKey(u, c),
                                                    !.message = m]]
    /\ received' = received + 1
    /\ UNCHANGED <<now, redis, rt>>

NextPreferences ==
    \/ \E x \in Handlers : PreferencesReceive(x) /\ UNCHANGED scoreVars /\ UNCHANGED <<pipe, calc, chat, memory, dlv, fn>>
    \/ \E x \in Handlers : EntryGet(x) /\ UNCHANGED scoreVars /\ UNCHANGED <<pipe, calc, chat, memory, dlv, fn>>
    \/ \E x \in Handlers : SetDetected(x) /\ UNCHANGED scoreVars /\ UNCHANGED <<pipe, calc, chat, memory, dlv, fn>>
    \/ \E x \in Handlers : UpdateGet(x) /\ UNCHANGED scoreVars /\ UNCHANGED <<pipe, calc, chat, memory, dlv, fn>>
    \/ \E x \in Handlers : UpdateWrite(x) /\ UNCHANGED scoreVars /\ UNCHANGED <<pipe, calc, chat, memory, dlv, fn>>
    \/ \E x \in Handlers : Recommend(x) /\ UNCHANGED scoreVars /\ UNCHANGED <<pipe, calc, chat, memory, dlv, fn>>
    \/ \E x \in Handlers : ClearState(x) /\ UNCHANGED scoreVars /\ UNCHANGED <<pipe, calc, chat, memory, dlv, fn>>

SpecPreferences == InitPreferences /\ [][NextPreferences]_vars

(***************************************************************************)
(* The Slack handlers (app_mention and direct message) and MemoryService.   *)
(* A handler stands at the call it awaits; the housing conversation inside  *)
(* it takes the steps of handleHousingConversation above.  All messages of  *)
(* this specification arrive within one staleness window.                   *)
(***************************************************************************)
MAX_MESSAGES == 20

ChatMessages == {"", "moving to Seattle", "42!", "clear", "help"}

\* detectCommand: the lower-cased, trimmed text is compared with the command words
detectCommand(message) ==
    CASE message = "clear" -> "clear"
      [] message = "help" -> "help"
      [] OTHER -> Null

\* MemoryService.getKey
getKey(userId, channelId) ==
    IF channelId # Null THEN "conversation:" \o channelId \o ":" \o userId
    ELSE "conversation:dm:" \o userId

MemoryKeys == {getKey(u, c) : u \in Users, c \in Channels}

NoHistory == [present |-> FALSE, messages |-> <<>>]

ClearedReply == "I've cleared our conversation history."
GreetingReply == "Hi! How can I help you today?"
HelpReply == "Here's what I can help you with"
ChatReply == "generated reply"
ErrorReply == "Sorry, I encountered an error processing your request."

\* faulty variant: messages.slice(0, n), the oldest are kept
LastN_KeepsOldest(messages, n) ==
    IF Len(messages) <= n THEN messages ELSE SubSeq(messages, 1, n)

\* messages.slice(-n)
LastN(messages, n) ==
    IF Len(messages) <= n THEN messages
    ELSE SubSeq(messages, Len(messages) - n + 1, Len(messages))

\* getConversationHistory once redis.get has answered
getConversationHistory(store, key, ok) ==
    IF ok /\ store[key].present THEN store[key].messages ELSE <<>>

\* addMessage after its read: push, keep the last MAX_MESSAGES, write
addMessage(store, key, existing, message, ok) ==
    IF ok
    THEN [store EXCEPT ![key] = [present |-> TRUE,
                                 messages |-> LastN(existing \o <<message>>, MAX_MESSAGES)]]
    ELSE store

\* clearConversation
clearConversation(store, key, ok) ==
    IF ok THEN [store EXCEPT ![key] = NoHistory] ELSE store

IdleChat ==
    [ pc |-> "idle", user |-> Null, channel |-> Null, text |-> Null,
      stageBefore |-> Null, historyBefore |-> 0, alone |-> FALSE,
      history |-> <<>>, existing |-> <<>>, response |-> Null ]

InFlight(x) == chat[x].pc \notin {"idle", "done"}

\* a mention or a direct message arrives: detectCommand, then the first call
ChatReceive(x) ==
    /\ ~InFlight(x)
    /\ \A y \in Handlers : y < x => InFlight(y)
    /\ received < MaxChatMessages
    /\ \E u \in Users, c \in Channels, m \in ChatMessages :
          LET command == detectCommand(m)
              mine == [IdleChat EXCEPT
                          !.pc = CASE m = "" -> "say"
                                   [] command = "clear" -> "clearConversation"
                                   [] command = "help" -> "say"
                                   [] OTHER -> "handleHousingInteraction",
                          !.user = u, !.channel = c, !.text = m,
                          !.stageBefore = redisGet(redis, getStateKey(u, c), now).stage,
                          !.historyBefore = Len(memory[getKey(u, c)].messages),
                          !.alone = \A y \in Handlers \ {x} : ~InFlight(y),
                          !.response = CASE m = "" -> GreetingReply
                                         [] command = "help" -> HelpReply
                                         [] OTHER -> Null]
          IN  /\ chat' = [y \in Handlers |->
                             IF y = x THEN mine ELSE [chat[y] EXCEPT !.alone = FALSE]]
              /\ h' = [h EXCEPT ![x] =
                         IF m # "" /\ command = Null
                         THEN [IdleHandler EXCEPT !.pc = "getHousingState",
                                                  !.key = getStateKey(u, c),
                                                  !.message = m]
                         ELSE IdleHandler]
    /\ received' = received + 1
    /\ UNCHANGED <<now, redis, rt, memory>>

\* the clear command: memoryService.clearConversation
CommandClearConversation(x) ==
    /\ chat[x].pc = "clearConversation"
    /\ \E ok \in StoreOutcomes :
          memory' = clearConversation(memory, getKey(chat[x].user, chat[x].channel), ok)
    /\ chat' = [chat EXCEPT ![x].pc = "clearHousingState"]
    /\ UNCHANGED <<now, redis, h, received, rt>>

\* faulty variant: the command clears the history only
CommandClearHousingState_Skipped(x) ==
    /\ chat[x].pc = "clearHousingState"
    /\ chat' = [chat EXCEPT ![x].pc = "say", ![x].response = ClearedReply]
    /\ UNCHANGED <<now, redis, h, received, rt, memory>>

\* the clear command: conversationStateService.clearHousingState, then the reply
CommandClearHousingState(x) ==
    /\ chat[x].pc = "clearHousingState"
    /\ \E ok \in StoreOutcomes :
          redis' = clearHousingState(redis, getStateKey(chat[x].user, chat[x].channel), ok)
    /\ chat' = [chat EXCEPT ![x].pc = "say", ![x].response = ClearedReply]
    /\ UNCHANGED <<now, h, received, rt, memory>>

\* handleHousingInteraction returns: the housing reply, or on to the standard flow
HousingReturned(x) ==
    /\ chat[x].pc = "handleHousingInteraction"
    /\ h[x].pc = "done"
    /\ chat' = [chat EXCEPT ![x] =
                   IF h[x].response # ""
                   THEN [@ EXCEPT !.pc = "addUserMessage", !.response = h[x].response]
                   ELSE [@ EXCEPT !.pc = "getConversationHistory"]]
    /\ UNCHANGED <<now, redis, h, received, rt, memory>>

\* memoryService.getConversationHistory
GetHistory(x) ==
    /\ chat[x].pc = "getConversationHistory"
    /\ \E ok \in StoreOutcomes :
          chat' = [chat EXCEPT ![x].pc = "generateResponse",
                               ![x].history = getConversationHistory(
                                   memory, getKey(chat[x].user, chat[x].channel), ok)]
    /\ UNCHANGED <<now, redis, h, received, rt, memory>>

\* generateResponse resolves, or throws into the handler's catch
GenerateResponse(x) ==
    /\ chat[x].pc = "generateResponse"
    /\ \E ok \in BOOLEAN :
          chat' = [chat EXCEPT ![x] =
                      IF ok THEN [@ EXCEPT !.pc = "addUserMessage", !.response = ChatReply]
                      ELSE [@ EXCEPT !.pc = "say", !.response = ErrorReply]]
    /\ UNCHANGED <<now, redis, h, received, rt, memory>>

\* addMessage reads the stored history
AddMessageRead(x) ==
    /\ chat[x].pc \in {"addUserMessage", "addAssistantMessage"}
    /\ \E ok \in StoreOutcomes :
          chat' = [chat EXCEPT ![x].pc = IF chat[x].pc = "addUserMessage"
                                         THEN "writeUserMessage"
                                         ELSE "writeAssistantMessage",
                               ![x].existing = getConversationHistory(
                                   memory, getKey(chat[x].user, chat[x].channel), ok)]
    /\ UNCHANGED <<now, redis, h, received, rt, memory>>

\* addMessage writes the history with the message appended
AddMessageWrite(x) ==
    /\ chat[x].pc \in {"writeUserMessage", "writeAssistantMessage"}
    /\ \E ok \in StoreOutcomes :
          memory' = addMessage(memory, getKey(chat[x].user, chat[x].channel),
                               chat[x].existing,
                               IF chat[x].pc = "writeUserMessage"
                               THEN [role |-> "user", content |-> chat[x].text]
                               ELSE [role |-> "assistant", content |-> chat[x].response],
                               ok)
    /\ chat' = [chat EXCEPT ![x].pc = IF chat[x].pc = "writeUserMessage"
                                      THEN "addAssistantMessage" ELSE "say",
                            ![x].existing = <<>>]
    /\ UNCHANGED <<now, redis, h, received, rt>>

\* say(response)
Say(x) ==
    /\ chat[x].pc = "say"
    /\ chat' = [chat EXCEPT ![x].pc = "done"]
    /\ UNCHANGED <<now, redis, h, received, rt, memory>>

InitChat ==
    /\ employee = Null /\ people = <<>> /\ ipc = Null /\ idx = 0
    /\ results = <<>> /\ lastIn = Null /\ commonalities = <<>> /\ enhancedPeople = <<>>
    /\ pipe = Null /\ calc = Null /\ dlv = Null /\ fn = Null
    /\ now = 0
    /\ redis = [k \in Keys |-> EmptySlot]
    /\ h = [x \in Handlers |-> IdleHandler]
    /\ received = 0
    /\ rt = IdleRoundTrip
    /\ chat = [x \in Handlers |-> IdleChat]
    /\ memory = [k \in MemoryKeys |-> NoHistory]

NextChat ==
    \/ \E x \in Handlers : ChatReceive(x) /\ UNCHANGED scoreVars /\ UNCHANGED <<pipe, calc, dlv, fn>>
    \/ \E x \in Handlers : CommandClearConversation(x) /\ UNCHANGED scoreVars /\ UNCHANGED <<pipe, calc, dlv, fn>>
    \/ \E x \in Handlers : CommandClearHousingState(x) /\ UNCHANGED scoreVars /\ UNCHANGED <<pipe, calc, dlv, fn>>
    \/ \E x \in Handlers : EntryGet(x) /\ UNCHANGED scoreVars /\ UNCHANGED <<pipe, calc, chat, memory, dlv, fn>>
    \/ \E x \in Handlers : SetDetected(x) /\ UNCHANGED scoreVars /\ UNCHANGED <<pipe, calc, chat, memory, dlv, fn>>
    \/ \E x \in Handlers : UpdateGet(x) /\ UNCHANGED scoreVars /\ UNCHANGED <<pipe, calc, chat, memory, dlv, fn>>
    \/ \E x \in Handlers : UpdateWrite(x) /\ UNCHANGED scoreVars /\ UNCHANGED <<pipe, calc, chat, memory, dlv, fn>>
    \/ \E x \in Handlers : Recommend(x) /\ UNCHANGED scoreVars /\ UNCHANGED <<pipe, calc, chat, memory, dlv, fn>>
    \/ \E x \in Handlers : ClearState(x) /\ UNCHANGED scoreVars /\ UNCHANGED <<pipe, calc, chat, memory, dlv, fn>>
    \/ \E x \in Handlers : HousingReturned(x) /\ UNCHANGED scoreVars /\ UNCHANGED <<pipe, calc, dlv, fn>>
    \/ \E x \in Handlers : GetHistory(x) /\ UNCHANGED scoreVars /\ UNCHANGED <<pipe, calc, dlv, fn>>
    \/ \E x \in Handlers : GenerateResponse(x) /\ UNCHANGED scoreVars /\ UNCHANGED <<pipe, calc, dlv, fn>>
    \/ \E x \in Handlers : AddMessageRead(x) /\ UNCHANGED scoreVars /\ UNCHANGED <<pipe, calc, dlv, fn>>
    \/ \E x \in Handlers : AddMessageWrite(x) /\ UNCHANGED scoreVars /\ UNCHANGED <<pipe, calc, dlv, fn>>
    \/ \E x \in Handlers : Say(x) /\ UNCHANGED scoreVars /\ UNCHANGED <<pipe, calc, dlv, fn>>

SpecChat == InitChat /\ [][NextChat]_vars

(***************************************************************************)
(* The clear command against a housing conversation under way: direct       *)
(* messages of one user, starting from the state the first housing message  *)
(* leaves (a 'detected' record and the first exchange in the history).      *)
(* fn[x] records that a clear deleted the state of handler x's key after    *)
(* handler x had read it and before handler x returned.                     *)
(***************************************************************************)
ClearKey == getStateKey("U1", Null)

\* the direct messages sent next
ClearMessages == {"moving to Seattle", "Seattle", "clear"}

InitClear ==
    /\ employee = Null /\ people = <<>> /\ ipc = Null /\ idx = 0
    /\ results = <<>> /\ lastIn = Null /\ commonalities = <<>> /\ enhancedPeople = <<>>
    /\ pipe = Null /\ calc = Null /\ dlv = Null
    /\ now = 0
    /\ redis = [k \in Keys |->
                   IF k = ClearKey
                   THEN [val |-> [Absent EXCEPT !.present = TRUE, !.stage = "detected",
                                                !.timestamp = 0],
                         exp |-> STATE_TTL]
                   ELSE EmptySlot]
    /\ h = [x \in Handlers |-> IdleHandler]
    /\ received = 0
    /\ rt = IdleRoundTrip
    /\ chat = [x \in Handlers |-> IdleChat]
    /\ memory = [k \in MemoryKeys |->
                    IF k = getKey("U1", Null)
                    THEN [present |-> TRUE,
                          messages |-> <<[role |-> "user", content |-> "moving to Seattle"],
                                         [role |-> "assistant",
                                          content |-> PromptForLocation]>>]
                    ELSE NoHistory]
    /\ fn = [x \in Handlers |-> FALSE]

\* a direct message arrives: detectCommand, then the first call
ClearReceive(x) ==
    /\ ~InFlight(x)
    /\ \A y \in Handlers : y < x => InFlight(y)
    /\ received < MaxClearMessages
    /\ \E m \in ClearMessages :
          LET command == detectCommand(m)
              mine == [IdleChat EXCEPT
                          !.pc = IF command = "clear" THEN "clearConversation"
                                 ELSE "handleHousingInteraction",
                          !.user = "U1", !.channel = Null, !.text = m,
                          !.stageBefore = redisGet(redis, ClearKey, now).stage,
                          !.historyBefore = Len(memory[getKey("U1", Null)].messages),
                          !.alone = \A y \in Handlers \ {x} : ~InFlight(y)]
          IN  /\ chat' = [y \in Handlers |->
                             IF y = x THEN mine ELSE [chat[y] EXCEPT !.alone = FALSE]]
              /\ h' = [h EXCEPT ![x] =
                         IF command = Null
                         THEN [IdleHandler EXCEPT !.pc = "getHousingState",
                                                  !.key = ClearKey,
                                                  !.message = m]
                         ELSE IdleHandler]
    /\ received' = received + 1
    /\ fn' = [fn EXCEPT ![x] = FALSE]
    /\ UNCHANGED <<now, redis, rt, memory>>

\* the handlers that hold what they read of the key and have not returned
HoldsRead(x, key) ==
    /\ h[x].key = key
    /\ h[x].pc \in {"setHousingState", "updateHousingState", "updateWrite"}

\* the clear command's deletion of the housing state, with the record of the
\* handlers it overtakes
ClearOvertakes(x) ==
    /\ CommandClearHousingState(x)
    /\ fn' = [y \in Handlers |->
                 fn[y] \/ HoldsRead(y, getStateKey(chat[x].user, chat[x].channel))]

clearOthers == <<employee, people, ipc, idx, results, lastIn, commonalities, enhancedPeople,
                 pipe, calc, dlv>>

NextClear ==
    \/ \E x \in Handlers : ClearReceive(x) /\ UNCHANGED clearOthers
    \/ \E x \in Handlers : CommandClearConversation(x) /\ UNCHANGED clearOthers /\ UNCHANGED fn
    \/ \E x \in Handlers : ClearOvertakes(x) /\ UNCHANGED clearOthers
    \/ \E x \in Handlers : EntryGet(x) /\ UNCHANGED clearOthers /\ UNCHANGED <<chat, memory, fn>>
    \/ \E x \in Handlers : SetDetected(x) /\ UNCHANGED clearOthers /\ UNCHANGED <<chat, memory, fn>>
    \/ \E x \in Handlers : UpdateGet(x) /\ UNCHANGED clearOthers /\ UNCHANGED <<chat, memory, fn>>
    \/ \E x \in Handlers : UpdateWrite(x) /\ UNCHANGED clearOthers /\ UNCHANGED <<chat, memory, fn>>
    \/ \E x \in Handlers : Recommend(x) /\ UNCHANGED clearOthers /\ UNCHANGED <<chat, memory, fn>>
    \/ \E x \in Handlers : ClearState(x) /\ UNCHANGED clearOthers /\ UNCHANGED <<chat, memory, fn>>
    \/ \E x \in Handlers : HousingReturned(x) /\ UNCHANGED clearOthers /\ UNCHANGED fn
    \/ \E x \in Handlers : GetHistory(x) /\ UNCHANGED clearOthers /\ UNCHANGED fn
    \/ \E x \in Handlers : GenerateResponse(x) /\ UNCHANGED clearOthers /\ UNCHANGED fn
    \/ \E x \in Handlers : AddMessageRead(x) /\ UNCHANGED clearOthers /\ UNCHANGED fn
    \/ \E x \in Handlers : AddMessageWrite(x) /\ UNCHANGED clearOthers /\ UNCHANGED fn
    \/ \E x \in Handlers : Say(x) /\ UNCHANGED clearOthers /\ UNCHANGED fn

SpecClear == InitClear /\ [][NextClear]_vars

(***************************************************************************)
(* POST /introductions as a whole: validation, the directory lookups, the   *)
(* scoring call and the delivery chain of the top candidates.  Candidates   *)
(* are named by the rank the scorer gives them (the ranking itself is       *)
(* SpecScore's); of a candidate only the name and the presence of an email  *)
(* matter to the chain.                                                      *)
(***************************************************************************)
TopCount == 3

slackUserIds == <<"U08AXKYCG87", "U08C10NAA0G", "U08BQSPHAQH">>
defaultChannel == "#founders"

CandidateNames == <<"P1", "P2", "P3", "P4", "P5">>

\* the request bodies: employee present or not, people absent or a list
RequestBodies ==
    { [employee |-> e, people |-> [present |-> FALSE, list |-> <<>>]] : e \in BOOLEAN }
    \cup
    UNION { { [employee |-> e,
               people |-> [present |-> TRUE,
                           list |-> [k \in 1..n |-> [name |-> CandidateNames[k],
                                                     email |-> emails[k]]]]] :
                e \in BOOLEAN, emails \in [1..n -> BOOLEAN] } : n \in 0..MaxCandidates }

\* enhancedPeople.slice(0, 3)
Top(list) == IF Len(list) <= TopCount THEN list ELSE SubSeq(list, 1, TopCount)

Entry(person, channel, status) == [person |-> person, channel |-> channel, status |-> status]
Attempt(person, step, ok) == [person |-> person, step |-> step, ok |-> ok]

\* the end of one iteration of the loop over top3People
NextCandidate(d) ==
    IF d.i + 1 <= Len(d.top)
    THEN [d EXCEPT !.pc = "generatePersonalizedMessage", !.i = d.i + 1]
    ELSE [d EXCEPT !.pc = "respond", !.i = d.i + 1]

\* after an option that did not send: option 2 needs an email, option 3 follows
AfterOption1(d) ==
    IF d.top[d.i].email THEN [d EXCEPT !.pc = "option2"] ELSE [d EXCEPT !.pc = "option3"]

\* faulty variant: only the employee is checked
Validate_EmployeeOnly ==
    /\ dlv.pc = "validate"
    /\ dlv' = IF ~dlv.body.employee
              THEN [dlv EXCEPT !.pc = "rejected", !.status = 400,
                               !.error = "Missing employee or people data"]
              ELSE [dlv EXCEPT !.pc = "enrichEmployee"]

\* if (!employee || !people) return res.status(400)
Validate ==
    /\ dlv.pc = "validate"
    /\ dlv' = IF ~dlv.body.employee \/ ~dlv.body.people.present
              THEN [dlv EXCEPT !.pc = "rejected", !.status = 400,
                               !.error = "Missing employee or people data"]
              ELSE [dlv EXCEPT !.pc = "enrichEmployee"]

\* notionService.getEmployeeByEmail(employee.email); a failure is logged
EnrichEmployee ==
    /\ dlv.pc = "enrichEmployee"
    /\ \E found \in {"found", "none", "threw"} :
          dlv' = [dlv EXCEPT !.pc = IF Len(dlv.body.people.list) = 0
                                    THEN "findCommonalities" ELSE "enrichPeople",
                             !.idx = 1,
                             !.lookups = @ + 1]

\* notionService.getEmployeeByEmail(person.email) for the next person
EnrichPerson ==
    /\ dlv.pc = "enrichPeople"
    /\ \E found \in {"found", "none", "threw"} :
          dlv' = [dlv EXCEPT !.pc = IF dlv.idx + 1 <= Len(dlv.body.people.list)
                                    THEN "enrichPeople" ELSE "findCommonalities",
                             !.idx = @ + 1,
                             !.lookups = @ + 1]

\* findCommonalities, the enhancement, the sort and the slice to the top three
FindCommonalities ==
    /\ dlv.pc = "findCommonalities"
    /\ dlv' = [dlv EXCEPT !.pc = IF Len(dlv.body.people.list) = 0
                                 THEN "respond" ELSE "generatePersonalizedMessage",
                          !.scoringCalls = @ + 1,
                          !.top = Top(dlv.body.people.list),
                          !.i = 1]

\* faulty variant: a throw leaves no entry for the candidate
GeneratePersonalizedMessage_NoEntry ==
    /\ dlv.pc = "generatePersonalizedMessage"
    /\ \E ok \in BOOLEAN :
          dlv' = IF ok
                 THEN [dlv EXCEPT !.pc = "option1", !.messageSent = FALSE,
                                  !.started = Append(@, dlv.top[dlv.i].name)]
                 ELSE NextCandidate([dlv EXCEPT
                          !.started = Append(@, dlv.top[dlv.i].name)])

\* faulty variant: a throw ends the loop over the candidates
GeneratePersonalizedMessage_Aborts ==
    /\ dlv.pc = "generatePersonalizedMessage"
    /\ \E ok \in BOOLEAN :
          dlv' = IF ok
                 THEN [dlv EXCEPT !.pc = "option1", !.messageSent = FALSE,
                                  !.started = Append(@, dlv.top[dlv.i].name)]
                 ELSE [dlv EXCEPT !.pc = "respond",
                                  !.started = Append(@, dlv.top[dlv.i].name),
                                  !.messageResults = Append(@, Entry(dlv.top[dlv.i].name,
                                                                     "none", "failed"))]

\* generatePersonalizedMessage; what it throws lands in the loop's catch
GeneratePersonalizedMessage ==
    /\ dlv.pc = "generatePersonalizedMessage"
    /\ \E ok \in BOOLEAN :
          dlv' = IF ok
                 THEN [dlv EXCEPT !.pc = "option1", !.messageSent = FALSE,
                                  !.started = Append(@, dlv.top[dlv.i].name)]
                 ELSE NextCandidate([dlv EXCEPT
                          !.started = Append(@, dlv.top[dlv.i].name),
                          !.messageResults = Append(@, Entry(dlv.top[dlv.i].name,
                                                             "none", "failed"))])

\* faulty variant: the chain goes on after the direct message was sent
Option1_GoesOn ==
    /\ dlv.pc = "option1"
    /\ \E outcome \in {"sent", "openThrew", "noChannel", "postThrew"} :
          LET person == dlv.top[dlv.i]
              tried == [dlv EXCEPT !.attempts = Append(@, Attempt(person.name, 1,
                                                                  outcome = "sent"))]
          IN  dlv' = IF outcome = "sent"
                     THEN AfterOption1([tried EXCEPT
                              !.messageSent = TRUE,
                              !.messageResults = Append(@,
                                  Entry(person.name, "DM to " \o slackUserIds[dlv.i], "sent"))])
                     ELSE AfterOption1(tried)

\* faulty variant: a failed direct message is recorded as well
Option1_RecordsFailure ==
    /\ dlv.pc = "option1"
    /\ \E outcome \in {"sent", "openThrew", "noChannel", "postThrew"} :
          LET person == dlv.top[dlv.i]
              tried == [dlv EXCEPT !.attempts = Append(@, Attempt(person.name, 1,
                                                                  outcome = "sent"))]
          IN  dlv' = IF outcome = "sent"
                     THEN NextCandidate([tried EXCEPT
                              !.messageSent = TRUE,
                              !.messageResults = Append(@,
                                  Entry(person.name, "DM to " \o slackUserIds[dlv.i], "sent"))])
                     ELSE AfterOption1([tried EXCEPT
                              !.messageResults = Append(@,
                                  Entry(person.name, "DM to " \o slackUserIds[dlv.i], "failed"))])

\* option 1: a direct message to slackUserIds[i]
Option1 ==
    /\ dlv.pc = "option1"
    /\ \E outcome \in {"sent", "openThrew", "noChannel", "postThrew"} :
          LET person == dlv.top[dlv.i]
              tried == [dlv EXCEPT !.attempts = Append(@, Attempt(person.name, 1,
                                                                  outcome = "sent"))]
          IN  dlv' = IF outcome = "sent"
                     THEN NextCandidate([tried EXCEPT
                              !.messageSent = TRUE,
                              !.messageResults = Append(@,
                                  Entry(person.name, "DM to " \o slackUserIds[dlv.i], "sent"))])
                     ELSE AfterOption1(tried)

\* option 2: a direct message to the user found by the person's email
Option2 ==
    /\ dlv.pc = "option2"
    /\ \E outcome \in {"sent", "lookupThrew", "noUser", "openThrew", "noChannel", "postThrew"} :
          LET person == dlv.top[dlv.i]
              tried == [dlv EXCEPT !.attempts = Append(@, Attempt(person.name, 2,
                                                                  outcome = "sent"))]
          IN  dlv' = IF outcome = "sent"
                     THEN NextCandidate([tried EXCEPT
                              !.messageSent = TRUE,
                              !.messageResults = Append(@,
                                  Entry(person.name, "DM to email of " \o person.name, "sent"))])
                     ELSE [tried EXCEPT !.pc = "option3"]

\* faulty variant: a failed post to the default channel leaves no entry
Option3_DropsFailure ==
    /\ dlv.pc = "option3"
    /\ \E ok \in BOOLEAN :
          LET person == dlv.top[dlv.i]
              tried == [dlv EXCEPT !.attempts = Append(@, Attempt(person.name, 3, ok))]
          IN  dlv' = NextCandidate(
                         IF ok
                         THEN [tried EXCEPT !.messageResults = Append(@,
                                  Entry(person.name, defaultChannel, "sent_to_default"))]
                         ELSE tried)

\* option 3: a post to the default channel
Option3 ==
    /\ dlv.pc = "option3"
    /\ \E ok \in BOOLEAN :
          LET person == dlv.top[dlv.i]
              tried == [dlv EXCEPT !.attempts = Append(@, Attempt(person.name, 3, ok))]
          IN  dlv' = NextCandidate(
                         [tried EXCEPT !.messageResults = Append(@,
                             IF ok THEN Entry(person.name, defaultChannel, "sent_to_default")
                             ELSE Entry(person.name, "none", "failed"))])

\* response.slackMessages = messageResults; res.json(response)
Respond ==
    /\ dlv.pc = "respond"
    /\ dlv' = [dlv EXCEPT !.pc = "responded", !.status = 200,
                          !.slackMessages = dlv.messageResults]

InitDelivery ==
    /\ employee = Null /\ people = <<>> /\ ipc = Null /\ idx = 0
    /\ results = <<>> /\ lastIn = Null /\ commonalities = <<>> /\ enhancedPeople = <<>>
    /\ pipe = Null /\ calc = Null /\ fn = Null
    /\ now = 0 /\ redis = Null /\ h = Null /\ received = 0 /\ rt = Null
    /\ chat = Null /\ memory = Null
    /\ \E body \in RequestBodies :
          dlv = [ pc |-> "validate", body |-> body, status |-> 0, error |-> Null,
                  lookups |-> 0, scoringCalls |-> 0, idx |-> 0,
                  top |-> <<>>, i |-> 0, started |-> <<>>, messageSent |-> FALSE,
                  attempts |-> <<>>, messageResults |-> <<>>, slackMessages |-> <<>> ]

deliveryOthers == <<employee, people, ipc, idx, results, lastIn, commonalities, enhancedPeople,
                    pipe, calc, now, redis, h, received, rt, chat, memory, fn>>

NextDelivery ==
    \/ Validate /\ UNCHANGED deliveryOthers
    \/ EnrichEmployee /\ UNCHANGED deliveryOthers
    \/ EnrichPerson /\ UNCHANGED deliveryOthers
    \/ FindCommonalities /\ UNCHANGED deliveryOthers
    \/ GeneratePersonalizedMessage /\ UNCHANGED deliveryOthers
    \/ Option1 /\ UNCHANGED deliveryOthers
    \/ Option2 /\ UNCHANGED deliveryOthers
    \/ Option3 /\ UNCHANGED deliveryOthers
    \/ Respond /\ UNCHANGED deliveryOthers

SpecDelivery == InitDelivery /\ [][NextDelivery]_vars

(***************************************************************************)
(* mapGenderToQloo.  A gender identity is a sequence of characters, built   *)
(* here from a few chunks so that the words of the rules occur alone, in    *)
(* upper case, and inside longer words.                                     *)
(***************************************************************************)
Chunks ==
    { <<"m", "a", "n">>, <<"m", "a", "l", "e">>, <<"w", "o">>, <<"f", "e">>,
      <<"n", "o", "n", "-">>, <<"b", "i", "n", "a", "r", "y">>,
      <<"M", "A", "N">>, <<"N", "o", "n", "-">>, <<"t", "r", "a", "n", "s", " ">> }

RECURSIVE Identities(_)
\* the texts of exactly n chunks
Identities(n) ==
    IF n = 0 THEN {<<>>}
    ELSE {c \o rest : c \in Chunks, rest \in Identities(n - 1)}

GenderIdentities == UNION {Identities(n) : n \in 1..MaxChunks}

\* String.prototype.toLowerCase on the characters in use
LowerChar(c) ==
    CASE c = "M" -> "m"
      [] c = "A" -> "a"
      [] c = "N" -> "n"
      [] OTHER -> c

toLowerCase(text) == [k \in 1..Len(text) |-> LowerChar(text[k])]

\* String.prototype.includes
includes(text, word) ==
    \E k \in 1..(Len(text) - Len(word) + 1) : SubSeq(text, k, k + Len(word) - 1) = word

Male == <<"m", "a", "l", "e">>
Man == <<"m", "a", "n">>
Female == <<"f", "e", "m", "a", "l", "e">>
Woman == <<"w", "o", "m", "a", "n">>

\* faulty variant: the default is 'male'
mapGenderToQloo_DefaultMale(genderIdentity) ==
    LET lowerGender == toLowerCase(genderIdentity)
    IN  CASE lowerGender = Male \/ lowerGender = Man -> "male"
          [] lowerGender = Female \/ lowerGender = Woman -> "female"
          [] includes(lowerGender, Man) \/ includes(lowerGender, Male) -> "male"
          [] includes(lowerGender, Woman) \/ includes(lowerGender, Female) -> "female"
          [] OTHER -> "male"

\* mapGenderToQloo: the first rule that applies decides
mapGenderToQloo(genderIdentity) ==
    LET lowerGender == toLowerCase(genderIdentity)
    IN  IF lowerGender = Male \/ lowerGender = Man THEN "male"
        ELSE IF lowerGender = Female \/ lowerGender = Woman THEN "female"
        ELSE IF includes(lowerGender, Man) \/ includes(lowerGender, Male) THEN "male"
        ELSE IF includes(lowerGender, Woman) \/ includes(lowerGender, Female) THEN "female"
        ELSE "female"

InitGender ==
    /\ employee = Null /\ people = <<>> /\ ipc = Null /\ idx = 0
    /\ results = <<>> /\ lastIn = Null /\ commonalities = <<>> /\ enhancedPeople = <<>>
    /\ pipe = Null /\ calc = Null /\ dlv = Null
    /\ now = 0 /\ redis = Null /\ h = Null /\ received = 0 /\ rt = Null
    /\ chat = Null /\ memory = Null
    /\ \E g \in GenderIdentities :
          fn = [genderIdentity |-> g, done |-> FALSE, gender |-> Null]

\* gender: this.mapGenderToQloo(employee.genderIdentity)
MapGender ==
    /\ ~fn.done
    /\ fn' = [fn EXCEPT !.done = TRUE, !.gender = mapGenderToQloo(fn.genderIdentity)]
    /\ UNCHANGED <<employee, people, ipc, idx, results, lastIn, commonalities, enhancedPeople,
                   pipe, calc, now, redis, h, received, rt, chat, memory, dlv>>

NextGender == MapGender

SpecGender == InitGender /\ [][NextGender]_vars

(***************************************************************************)
(* gatherPersonData, call by call: the loop over the first three queries    *)
(* with its try/catch inside, then the loop over the first three keywords   *)
(* inside one try/catch.                                                    *)
(***************************************************************************)
HeritageTerms == {"Asian American", "Irish"}

\* the profiles a gather call is given
GatherProfiles ==
    { [name |-> "Ada", role |-> r, department |-> "Engineering", location |-> l,
       culturalHeritage |-> c] :
        r \in {"", "VP Eng", "Engineer"}, l \in {Null, "London, UK"},
        c \in SeqsUpTo(HeritageTerms, MaxHeritage) }

\* what qloo.search and qloo.searchTags may answer
SearchAnswers == {Threw, Resolved(<<EJazz>>), Resolved(<<ESushi, ERamen>>)}
TagAnswers == {Threw, Resolved(<<TCulture>>), Resolved(<<TTech>>)}

\* faulty variant: every constructed query is issued
issuedQueries_All(person) == searchQueries(person)

\* searchQueries.slice(0, 3)
issuedQueries(person) == Slice0(searchQueries(person), 3)

\* interests.slice(0, 3)
issuedInterests(person) == Slice0(extractInterestKeywords(person), 3)

\* one call of the API, as the gatherer saw it
Call(query, answer) == [query |-> query, ok |-> answer.ok, results |-> answer.results]

InitGather ==
    /\ employee = Null /\ people = <<>> /\ ipc = Null /\ idx = 0
    /\ results = <<>> /\ lastIn = Null /\ commonalities = <<>> /\ enhancedPeople = <<>>
    /\ pipe = Null /\ calc = Null /\ dlv = Null
    /\ now = 0 /\ redis = Null /\ h = Null /\ received = 0 /\ rt = Null
    /\ chat = Null /\ memory = Null
    /\ \E person \in GatherProfiles :
          fn = [ person |-> person, pc |-> "search",
                 queries |-> issuedQueries(person), qi |-> 1,
                 interests |-> <<>>, ki |-> 1,
                 entities |-> <<>>, tags |-> <<>>,
                 searched |-> <<>>, tagged |-> <<>> ]

\* the entity loop is over: extractInterestKeywords, then the keyword loop
StartTags(g) ==
    LET interests == issuedInterests(g.person)
    IN  [g EXCEPT !.pc = IF interests = <<>> THEN "done" ELSE "tags",
                  !.interests = interests, !.ki = 1]

\* faulty variant: a failing search ends the loop over the queries
GatherSearch_Aborts ==
    /\ fn.pc = "search"
    /\ \E answer \in SearchAnswers :
          LET g == [fn EXCEPT !.searched = Append(@, Call(fn.queries[fn.qi], answer)),
                              !.entities = @ \o answer.results,
                              !.qi = @ + 1]
          IN  fn' = IF fn.qi + 1 <= Len(fn.queries) /\ answer.ok THEN g ELSE StartTags(g)

\* one pass of the loop over the queries: qloo.search resolves or throws
GatherSearch ==
    /\ fn.pc = "search"
    /\ \E answer \in SearchAnswers :
          LET g == [fn EXCEPT !.searched = Append(@, Call(fn.queries[fn.qi], answer)),
                              !.entities = @ \o (IF answer.ok THEN answer.results ELSE <<>>),
                              !.qi = @ + 1]
          IN  fn' = IF fn.qi + 1 <= Len(fn.queries) THEN g ELSE StartTags(g)

\* one pass of the loop over the keywords: qloo.searchTags resolves, or throws
\* into the catch after the loop
GatherTags ==
    /\ fn.pc = "tags"
    /\ \E answer \in TagAnswers :
          LET g == [fn EXCEPT !.tagged = Append(@, Call(fn.interests[fn.ki], answer)),
                              !.tags = @ \o (IF answer.ok THEN answer.results ELSE <<>>),
                              !.ki = @ + 1]
          IN  fn' = IF answer.ok /\ fn.ki + 1 <= Len(fn.interests) THEN g
                    ELSE [g EXCEPT !.pc = "done"]

gatherOthers == <<employee, people, ipc, idx, results, lastIn, commonalities, enhancedPeople,
                  pipe, calc, now, redis, h, received, rt, chat, memory, dlv>>

NextGather ==
    \/ GatherSearch /\ UNCHANGED gatherOthers
    \/ GatherTags /\ UNCHANGED gatherOthers

SpecGather == InitGather /\ [][NextGather]_vars

(***************************************************************************)
(* findQlooCommonalities on two signal bags of any size a gather call can   *)
(* return (three searches of up to five entities each)                      *)
(***************************************************************************)
\* a matched entity, with or without an id
BagEntity(id) == [id |-> id, name |-> "Jazz", category |-> "music"]

\* the bags of up to MaxEntities matched entities and no tag
EntityBags ==
    { [entities |-> [i \in 1..Len(ids) |-> BagEntity(ids[i])], tags |-> <<>>,
       searchFailed |-> FALSE, tagsFailed |-> FALSE] :
        ids \in SeqsUpTo({Null, "e1"}, MaxEntities) }

InitCompare ==
    /\ employee = Null /\ people = <<>> /\ ipc = Null /\ idx = 0
    /\ results = <<>> /\ lastIn = Null /\ commonalities = <<>> /\ enhancedPeople = <<>>
    /\ calc = Null /\ dlv = Null /\ fn = Null
    /\ now = 0 /\ redis = Null /\ h = Null /\ received = 0 /\ rt = Null
    /\ chat = Null /\ memory = Null
    /\ pipe \in [employeeData : EntityBags, personData : EntityBags,
                 compare : CompareOutcomes, done : {FALSE}, q : {Null}]

\* one call of findQlooCommonalities on the two bags
RunCompare ==
    /\ ~pipe.done
    /\ pipe' = [pipe EXCEPT !.done = TRUE,
                            !.q = findQlooCommonalities(pipe.employeeData, pipe.personData,
                                                        Null, pipe.compare, Resolved(<<>>))]
    /\ UNCHANGED <<employee, people, ipc, idx, results, lastIn, commonalities,
                   enhancedPeople, calc, now, redis, h, received, rt, chat, memory, dlv, fn>>

NextCompare == RunCompare

SpecCompare == InitCompare /\ [][NextCompare]_vars

(***************************************************************************)
(* The directory enrichment of POST /introductions: the employee's and a    *)
(* candidate's profile merged with the record getEmployeeByEmail returns.   *)
(* A JavaScript value is kept with its type, since || tests truthiness.     *)
(***************************************************************************)
Undefined == [t |-> "undefined", s |-> "", l |-> <<>>]
NullValue == [t |-> "null", s |-> "", l |-> <<>>]
Str(s) == [t |-> "string", s |-> s, l |-> <<>>]
List(l) == [t |-> "list", s |-> "", l |-> l]

\* ToBoolean: undefined, null and '' are falsy; every array is truthy
Truthy(v) == v.t = "list" \/ (v.t = "string" /\ v.s # "")

\* a || b
OrElse(a, b) == IF Truthy(a) THEN a ELSE b

\* the optional fields of the profiles in the request body
RequestEmployees ==
    [culturalHeritage : {Undefined, List(<<"Irish">>)},
     ageRange : {Undefined, Str("25-34")},
     genderIdentity : {Undefined, Str("woman")}]
RequestPersons ==
    [location : {Undefined, Str("Paris")},
     culturalHeritage : {Undefined, List(<<"Irish">>)},
     ageRange : {Undefined, Str("25-34")},
     genderIdentity : {Undefined, Str("woman")}]

\* notionPageToEmployee: getPropertyValue gives null for a missing property, ''
\* for an empty select or text, [] for an empty multi-select
NotionProfiles ==
    [location : {NullValue, Str(""), Str("London")},
     culturalHeritage : {NullValue, List(<<>>), List(<<"Asian American">>)},
     ageRange : {NullValue, Str(""), Str("35-44")},
     genderIdentity : {NullValue, Str(""), Str("man")}]

\* getEmployeeByEmail: a record, null, or a throw
NoProfile == [location |-> Undefined, culturalHeritage |-> Undefined,
              ageRange |-> Undefined, genderIdentity |-> Undefined]
Lookup(kind, profile) == [kind |-> kind, profile |-> profile]
NotionLookups ==
    {Lookup("none", NoProfile), Lookup("threw", NoProfile)}
    \cup {Lookup("found", n) : n \in NotionProfiles}

\* { ...employee, culturalHeritage: n.culturalHeritage || employee.culturalHeritage, ... }
enrichEmployee(emp, lookup) ==
    IF lookup.kind # "found" THEN emp
    ELSE [emp EXCEPT !.culturalHeritage = OrElse(lookup.profile.culturalHeritage, @),
                     !.ageRange = OrElse(lookup.profile.ageRange, @),
                     !.genderIdentity = OrElse(lookup.profile.genderIdentity, @)]

\* { ...person, location: n.location, culturalHeritage: n.culturalHeritage, ... }
enrichPerson(person, lookup) ==
    IF lookup.kind # "found" THEN person
    ELSE [person EXCEPT !.location = lookup.profile.location,
                        !.culturalHeritage = lookup.profile.culturalHeritage,
                        !.ageRange = lookup.profile.ageRange,
                        !.genderIdentity = lookup.profile.genderIdentity]

InitEnrich ==
    /\ employee = Null /\ people = <<>> /\ ipc = Null /\ idx = 0
    /\ results = <<>> /\ lastIn = Null /\ commonalities = <<>> /\ enhancedPeople = <<>>
    /\ pipe = Null /\ calc = Null /\ dlv = Null
    /\ now = 0 /\ redis = Null /\ h = Null /\ received = 0 /\ rt = Null
    /\ chat = Null /\ memory = Null
    /\ \E emp \in RequestEmployees, person \in RequestPersons :
          fn = [ pc |-> "employee", employee |-> emp, person |-> person,
                 notionEmployee |-> Lookup("none", NoProfile),
                 notionPerson |-> Lookup("none", NoProfile),
                 enrichedEmployee |-> emp, enrichedPeople |-> <<>> ]

\* the lookup of the employee and the merge
EnrichEmployeeProfile ==
    /\ fn.pc = "employee"
    /\ \E lookup \in NotionLookups :
          fn' = [fn EXCEPT !.pc = "people",
                           !.notionEmployee = lookup,
                           !.enrichedEmployee = enrichEmployee(fn.employee, lookup)]

\* one pass of the loop over people
EnrichPersonProfile ==
    /\ fn.pc = "people"
    /\ \E lookup \in NotionLookups :
          fn' = [fn EXCEPT !.pc = "done",
                           !.notionPerson = lookup,
                           !.enrichedPeople = Append(@, enrichPerson(fn.person, lookup))]

enrichOthers == <<employee, people, ipc, idx, results, lastIn, commonalities, enhancedPeople,
                  pipe, calc, now, redis, h, received, rt, chat, memory, dlv>>

NextEnrich ==
    \/ EnrichEmployeeProfile /\ UNCHANGED enrichOthers
    \/ EnrichPersonProfile /\ UNCHANGED enrichOthers

SpecEnrich == InitEnrich /\ [][NextEnrich]_vars

(***************************************************************************)
(* MemoryService.addMessage called again and again, one call at a time, on  *)
(* the histories of one user in the DM scope and in a channel.  A message   *)
(* carries its number among the messages appended to its history.           *)
(***************************************************************************)
InitMemory ==
    /\ employee = Null /\ people = <<>> /\ ipc = Null /\ idx = 0
    /\ results = <<>> /\ lastIn = Null /\ commonalities = <<>> /\ enhancedPeople = <<>>
    /\ pipe = Null /\ calc = Null /\ dlv = Null
    /\ now = 0 /\ redis = Null /\ h = Null /\ received = 0 /\ rt = Null
    /\ chat = Null
    /\ memory = [k \in MemoryKeys |-> NoHistory]
    /\ fn = [ pc |-> "idle", key |-> Null, existing |-> <<>>, calls |-> 0,
              appended |-> [k \in MemoryKeys |-> <<>>] ]

\* addMessage is called and reads the stored history
AppendRead ==
    /\ fn.pc = "idle"
    /\ fn.calls < MaxAppends
    /\ \E k \in MemoryKeys, ok \in StoreOutcomes :
          fn' = [fn EXCEPT !.pc = "write", !.key = k, !.calls = @ + 1,
                           !.existing = getConversationHistory(memory, k, ok)]
    /\ UNCHANGED memory

\* addMessage pushes the message, trims and writes
AppendWrite ==
    /\ fn.pc = "write"
    /\ LET message == [role |-> "user", content |-> Len(fn.appended[fn.key]) + 1]
       IN  /\ \E ok \in StoreOutcomes :
                 memory' = addMessage(memory, fn.key, fn.existing, message, ok)
           /\ fn' = [fn EXCEPT !.pc = "idle", !.existing = <<>>,
                               !.appended[fn.key] = Append(@, message)]

memoryOthers == <<employee, people, ipc, idx, results, lastIn, commonalities, enhancedPeople,
                  pipe, calc, now, redis, h, received, rt, chat, dlv>>

NextMemory ==
    \/ AppendRead /\ UNCHANGED memoryOthers
    \/ AppendWrite /\ UNCHANGED memoryOthers

SpecMemory == InitMemory /\ [][NextMemory]_vars

(***************************************************************************)
(* Properties of the scorer and the ranker                                  *)
(***************************************************************************)
CountWhere(s, keep) == Cardinality({i \in 1..Len(s) : s[i] \in keep})

SameCompanyOnly == <<[kind |-> "Same company", v |-> ""]>>
Apology == [kind |-> "Unable to fetch Qloo insights at this time", v |-> ""]
Resolvedipc == {"enhance", "respond"}

LastResult == results[Len(results)]

\* C1: findCommonalities returns exactly one result per input candidate, with that
\* candidate's personId, whatever calls fail, and every connectionScore is in [0,1].
C1_OneResultPerCandidate ==
    /\ ipc = "score" => Len(results) = idx - 1
    /\ \A i \in 1..Len(results) :
          /\ results[i].personId = people[i].id
          /\ results[i].connectionScore \in 0..40
    /\ ipc \in Resolvedipc =>
          /\ Len(commonalities) = Len(people)
          /\ \A p \in PersonPool :
                CountWhere(commonalities, {c \in Range(commonalities) : c.personId = p.id})
                    = CountWhere(people, {p})
          /\ \A i \in 1..Len(commonalities) : commonalities[i].connectionScore \in 0..40

C1_Witness ==
    /\ ipc = "enhance"
    /\ Len(people) >= 3
    /\ \E i \in 1..Len(people) : people[i].role = Null
    /\ lastIn.failed = {"search", "searchTags", "compareAnalysis", "getInsights",
                        "generateText"}

\* C2: a candidate whose pipeline throws gets the fallback result (commonalities
\* exactly ["Same company"], the apology insight, score 0.1), and the loop goes on
\* to the later candidates.
C2_ThrowGivesFallback ==
    /\ ipc # "error500"
    /\ lastIn.threw =>
          /\ Len(results) >= 1
          /\ LastResult.personId = people[Len(results)].id
          /\ LastResult.commonalities = SameCompanyOnly
          /\ LastResult.qlooInsights = Apology
          /\ LastResult.connectionScore = 4
          /\ ipc = "score" => idx = Len(results) + 1

C2_Witness ==
    /\ Len(results) >= 2
    /\ people[1].role = Null
    /\ results[1].connectionScore = 4
    /\ ~lastIn.threw
    /\ results[Len(results)].connectionScore > 4

\* C3 as claimed: the candidate whose compareAnalysis call threw has score 0.1 and
\* commonalities exactly ["Same company"].
C3_CompareFailureGivesFallback ==
    "compareAnalysis" \in lastIn.failed =>
        /\ LastResult.connectionScore = 4
        /\ LastResult.commonalities = SameCompanyOnly

\* C3 amended: when compareAnalysis throws for a candidate, every candidate still
\* appears in the ranked list, and that candidate keeps the result of the rest of
\* its pipeline: no "Both might enjoy" statement, never the ["Same company"]
\* fallback, never the apology insight, and a score other than 0.1.
C3_CompareFailureIsEmptyResult ==
    /\ "compareAnalysis" \in lastIn.failed =>
          /\ LastResult.personId = people[Len(results)].id
          /\ \A i \in 1..Len(LastResult.commonalities) :
                LastResult.commonalities[i].kind \notin {"Both might enjoy", "Same company"}
          /\ LastResult.qlooInsights # Apology
          /\ LastResult.connectionScore # 4
    /\ ipc \in Resolvedipc => Len(commonalities) = Len(people)

C3_Witness ==
    /\ ipc = "respond"
    /\ Len(people) = 3
    /\ Len(enhancedPeople) = 3
    /\ "compareAnalysis" \in lastIn.failed
    /\ \E i \in 1..3 : /\ enhancedPeople[i].id = people[3].id
                       /\ enhancedPeople[i].connectionScore > 4

\* C4: whatever combination of search, searchTags, compareAnalysis, getInsights and
\* text generation fails, findCommonalities resolves with a result list.
C4_NoFailureEscapes ==
    pipe.done => /\ ~pipe.thrown
                 /\ Len(pipe.out) = 1
                 /\ pipe.out[1].personId = pipe.person.id

C4_Witness ==
    /\ pipe.done
    /\ pipe.calls.failed = {"search", "searchTags", "compareAnalysis", "getInsights",
                            "generateText"}
    /\ Len(pipe.out) = 1

\* C5: the score does not decrease when a workplace commonality, a taste statement
\* or an affinity entry (high or not) is added, never exceeds 1.0, and is exactly
\* 1.0 for 10 workplace + 10 taste + 10 high-affinity items.
C5_ScoreMonotoneAndCapped ==
    calc.done =>
        /\ calc.score <= calc.moreW
        /\ calc.score <= calc.moreT
        /\ calc.score <= calc.moreA
        /\ calc.score <= calc.moreHigh
        /\ calc.score \in 0..40
        /\ (calc.W >= 10 /\ calc.T >= 10 /\ calc.A >= 10 /\ calc.H >= 10) => calc.score = 40

C5_Witness ==
    /\ calc.done
    /\ calc.W = 10 /\ calc.T = 10 /\ calc.A = 10 /\ calc.H = 10
    /\ calc.score = 40

\* the claimed formula in exact tenths: min(2W + 3T + min(A, 3) + H, 10)
FormulaTenths(W, T, A, H) == Min2(2 * W + 3 * T + Min2(A, 3) + H, 10)

\* C20: the score is min(0.2*W + 0.3*T + min(0.1*A, 0.3) + 0.1*H, 1.0): the
\* double the code returns is the one nearest to that value or a neighbour of
\* it one rounding step away, and is at most 1.0.
C20_ScoreIsTheWeightedSum ==
    calc.done =>
        /\ calc.score - Tenths(FormulaTenths(calc.W, calc.T, calc.A, calc.H)) \in {-1, 0, 1}
        /\ (2 * calc.W + 3 * calc.T + Min2(calc.A, 3) + calc.H > 10) => calc.score = Tenths(10)
        /\ calc.score <= Tenths(10)

C20_Witness ==
    /\ calc.done
    /\ calc.W = 1 /\ calc.T = 0 /\ calc.A = 5 /\ calc.H = 1
    /\ calc.score = Tenths(6)

\* the ids of a list, in order
IdsOf(s) == [i \in 1..Len(s) |-> s[i].id]

\* C6: the people list of the response is a permutation of the request's people
\* list, ordered by non-increasing connectionScore.
C6_ResponseIsSortedPermutation ==
    ipc = "respond" =>
        /\ Len(enhancedPeople) = Len(people)
        /\ \A p \in PersonPool :
              CountWhere(IdsOf(enhancedPeople), {p.id}) = CountWhere(people, {p})
        /\ \A i \in 1..Len(enhancedPeople) :
              \E q \in Range(people) :
                 /\ q.id = enhancedPeople[i].id /\ q.name = enhancedPeople[i].name
                 /\ q.email = enhancedPeople[i].email /\ q.role = enhancedPeople[i].role
                 /\ q.department = enhancedPeople[i].department
        /\ \A i \in 1..(Len(enhancedPeople) - 1) :
              enhancedPeople[i].connectionScore >= enhancedPeople[i + 1].connectionScore

C6_Witness ==
    /\ ipc = "respond"
    /\ Len(people) = 3
    /\ enhancedPeople[1].id = people[3].id
    /\ enhancedPeople[3].id = people[1].id
    /\ enhancedPeople[1].connectionScore > enhancedPeople[2].connectionScore
    /\ enhancedPeople[2].connectionScore > enhancedPeople[3].connectionScore

\* the score the response gives the candidate with this id
ScoreOfId(id) ==
    LET hits == {i \in 1..Len(commonalities) : commonalities[i].personId = id}
    IN  IF hits = {} THEN 0
        ELSE commonalities[CHOOSE i \in hits : \A j \in hits : i <= j].connectionScore

\* C7: candidates of equal score keep their input order, in the list
\* findCommonalities returns and in the people list of the response.
C7_TiesKeepInputOrder ==
    /\ ipc \in Resolvedipc =>
          \A v \in 0..40 :
             FilterSeq(commonalities, {c \in Range(commonalities) : c.connectionScore = v})
               = FilterSeq(results, {c \in Range(results) : c.connectionScore = v})
    /\ ipc = "respond" =>
          \A v \in 0..40 :
             FilterSeq(IdsOf(enhancedPeople), {id \in Range(IdsOf(people)) : ScoreOfId(id) = v})
               = FilterSeq(IdsOf(people), {id \in Range(IdsOf(people)) : ScoreOfId(id) = v})

C7_Witness ==
    /\ ipc = "respond"
    /\ Len(people) = 3
    /\ people[2].id # people[3].id
    /\ ScoreOfId(people[1].id) < ScoreOfId(people[2].id)
    /\ ScoreOfId(people[2].id) = ScoreOfId(people[3].id)
    /\ results[2] # results[3]
    /\ enhancedPeople[1].id = people[2].id
    /\ enhancedPeople[2].id = people[3].id

(***************************************************************************)
(* Properties of the housing dialogue and its state service                 *)
(***************************************************************************)
StaleEntryRead(x) ==
    h[x].raw.present /\ h[x].readAt - h[x].raw.timestamp > 600

StaleUpdateRead(x) ==
    h[x].updateRaw.present /\ h[x].updateAt - h[x].updateRaw.timestamp > 600

RoundTripRead == rt.pc \in {"getPurge", "clearHousingState", "getAgain", "done"}

\* every call found the record inside the store's expiry and the staleness window
RoundTripInWindow ==
    /\ rt.updateAt < rt.setAt + 600
    /\ rt.updateAt - rt.created.timestamp <= 600
    /\ rt.readAt < rt.writeAt + 600
    /\ rt.readAt - rt.updateAt <= 600

C10_CompleteNeverRead ==
    \A x \in Handlers :
        /\ ~(h[x].raw.present /\ h[x].raw.stage = "complete")
        /\ ~(h[x].updateRaw.present /\ h[x].updateRaw.stage = "complete")

\* the handler's getHousingState answered "no state" to a housing query
NoStateHousingQuery(x) ==
    /\ h[x].pc \notin {"idle", "getHousingState"}
    /\ ~h[x].state.present
    /\ isHousingQuery(h[x].message)

LocationGiven(x) ==
    /\ h[x].state.present
    /\ h[x].state.stage \in {"detected", "awaiting_location"}
    /\ extractLocation(h[x].message) # Null

ClearCommand(x) == chat[x].pc # "idle" /\ detectCommand(chat[x].text) = "clear"

AttemptsOf(name) == SelectSeq(dlv.attempts, LAMBDA a : a.person = name)
EntriesOf(name) == SelectSeq(dlv.messageResults, LAMBDA e : e.person = name)

\* the iteration of the loop for the candidate at rank k is over
ChainOver(k) == k < dlv.i \/ dlv.pc \in {"respond", "responded"}

\* the channel an entry names for a step of the chain of the candidate at rank k
ChannelOfStep(k, step) ==
    CASE step = 1 -> "DM to " \o slackUserIds[k]
      [] step = 2 -> "DM to email of " \o dlv.top[k].name
      [] OTHER -> defaultChannel

\* C14: the attempts of a candidate's chain come in the order rank-assigned
\* direct message, email-lookup direct message, default-channel post; a step
\* is attempted only after every earlier attempt failed, so none follows a
\* success, and the email step is left out only for a candidate without email.
C14_ChainOrderStopsAtFirstSuccess ==
    \A k \in 1..Len(dlv.top) :
        LET a == AttemptsOf(dlv.top[k].name)
        IN  \A j \in 1..Len(a) :
                /\ j = 1 => a[j].step = 1
                /\ j > 1 => (a[j].step > a[j - 1].step /\ ~a[j - 1].ok)
                /\ a[j].step = 2 => dlv.top[k].email
                /\ (j > 1 /\ a[j].step = 3 /\ a[j - 1].step = 1) => ~dlv.top[k].email

C14_Witness ==
    /\ dlv.pc = "responded"
    /\ Len(dlv.top) >= 2
    /\ AttemptsOf(dlv.top[1].name) = <<Attempt("P1", 1, FALSE), Attempt("P1", 2, FALSE),
                                       Attempt("P1", 3, TRUE)>>
    /\ AttemptsOf(dlv.top[2].name) = <<Attempt("P2", 1, TRUE)>>

C16_AllFailedIsRecorded ==
    \A k \in 1..Len(dlv.top) :
        LET a == AttemptsOf(dlv.top[k].name)
        IN  ChainOver(k) =>
                /\ EntriesOf(dlv.top[k].name) # <<>>
                /\ (a # <<>> /\ \A j \in 1..Len(a) : ~a[j].ok) =>
                      /\ \E n \in 1..Len(dlv.messageResults) :
                            dlv.messageResults[n] = Entry(dlv.top[k].name, "none", "failed")
                      /\ dlv.pc = "responded" =>
                            \E n \in 1..Len(dlv.slackMessages) :
                                dlv.slackMessages[n] = Entry(dlv.top[k].name, "none", "failed")

C16_Witness ==
    /\ dlv.pc = "responded"
    /\ Len(dlv.top) >= 1
    /\ dlv.top[1].email
    /\ AttemptsOf("P1") = <<Attempt("P1", 1, FALSE), Attempt("P1", 2, FALSE),
                            Attempt("P1", 3, FALSE)>>
    /\ dlv.slackMessages[1] = Entry("P1", "none", "failed")

MinOf(a, b) == IF a <= b THEN a ELSE b

\* C17: when the loop is over the chain has been started, in rank order, for
\* each of the top min(3, N) candidates, whatever failed or was thrown in the
\* chains before; a failure in a chain leads to the next step of that chain
\* or to the next candidate, never out of the loop while candidates remain.
C17_EveryTopCandidateIsTried ==
    /\ [](dlv.pc \in {"respond", "responded"} =>
            /\ Len(dlv.started) = MinOf(TopCount, Len(dlv.body.people.list))
            /\ \A k \in 1..Len(dlv.started) : dlv.started[k] = dlv.body.people.list[k].name)
    /\ [][(dlv.pc \in {"generatePersonalizedMessage", "option1", "option2", "option3"}
           /\ dlv'.pc = "respond") => dlv.i = Len(dlv.top)]_vars

C17_Witness ==
    /\ dlv.pc = "responded"
    /\ Len(dlv.body.people.list) = 4
    /\ dlv.started = <<"P1", "P2", "P3">>
    /\ AttemptsOf("P1") = <<>>
    /\ EntriesOf("P1") = <<Entry("P1", "none", "failed")>>
    /\ EntriesOf("P2") = <<Entry("P2", "none", "failed")>>
    /\ AttemptsOf("P2") # <<>>
    /\ EntriesOf("P3") = <<Entry("P3", "DM to " \o slackUserIds[3], "sent")>>

NonBinary == <<"n", "o", "n", "-", "b", "i", "n", "a", "r", "y">>

\* none of the rules for male, man, female, woman applies to the identity
NoGenderRule(genderIdentity) ==
    LET lowerGender == toLowerCase(genderIdentity)
    IN  /\ ~includes(lowerGender, Male) /\ ~includes(lowerGender, Man)
        /\ ~includes(lowerGender, Female) /\ ~includes(lowerGender, Woman)

\* C19: the mapping answers 'male' or 'female' for every identity, 'female'
\* for every identity none of the male, man, female, woman rules applies to,
\* and so 'female' for "non-binary", in whatever case it is written.
C19_GenderDefaultsToFemale ==
    fn.done =>
        /\ fn.gender \in {"male", "female"}
        /\ NoGenderRule(fn.genderIdentity) => fn.gender = "female"
        /\ toLowerCase(fn.genderIdentity) = NonBinary => fn.gender = "female"

C19_Witness ==
    /\ fn.done
    /\ fn.genderIdentity = <<"N", "o", "n", "-", "b", "i", "n", "a", "r", "y">>
    /\ NoGenderRule(fn.genderIdentity)
    /\ fn.gender = "female"

(***************************************************************************)
(* Further properties of the scorer                                         *)
(***************************************************************************)
\* the result is the one the catch of findCommonalities pushes
IsFallback(r) == r.qlooInsights = Apology

\* C21: the fallback score 0.1 is below every nonzero score of a completed
\* pipeline (an affinity entry never comes without a taste statement, so the
\* lowest such score is 0.2), and in the list findCommonalities returns and
\* in the people list of the response no failed candidate stands before a
\* candidate of a completed pipeline that found a commonality.
C21_FallbackRanksBelowCommonalities ==
    /\ \A i \in 1..Len(results) :
          /\ IsFallback(results[i]) => results[i].connectionScore = Tenths(1)
          /\ (~IsFallback(results[i]) /\ results[i].connectionScore # 0) =>
                results[i].connectionScore > Tenths(1)
          /\ (~IsFallback(results[i]) /\ results[i].commonalities # <<>>) =>
                results[i].connectionScore > Tenths(1)
    /\ ipc \in Resolvedipc =>
          \A i, j \in 1..Len(commonalities) :
              (i < j /\ IsFallback(commonalities[i])) =>
                  (IsFallback(commonalities[j]) \/ commonalities[j].commonalities = <<>>)
    /\ ipc = "respond" =>
          /\ \A i, j \in 1..Len(enhancedPeople) :
                (i < j /\ enhancedPeople[i].qlooInsights = Apology) =>
                    \/ enhancedPeople[j].qlooInsights = Apology
                    \/ enhancedPeople[j].qlooCommonalities = <<>>
          /\ \A W, T, A \in 0..3 : \A H \in 0..A :
                ((A > 0 => T > 0) /\ ScoreOfCounts(W, T, A, H) # 0) =>
                    ScoreOfCounts(W, T, A, H) > Tenths(1)

C21_Witness ==
    /\ ipc = "respond"
    /\ Len(people) = 3
    /\ people[1].role = Null
    /\ enhancedPeople[1].connectionScore = Tenths(2)
    /\ enhancedPeople[1].qlooCommonalities # <<>>
    /\ enhancedPeople[2].id = people[1].id
    /\ enhancedPeople[2].qlooInsights = Apology
    /\ enhancedPeople[2].connectionScore = Tenths(1)
    /\ enhancedPeople[3].connectionScore = 0
    /\ enhancedPeople[3].qlooInsights # Apology

(***************************************************************************)
(* Further properties of the housing conversation                           *)
(***************************************************************************)
\* the handler read a state of the location stage and its message has no location
NoLocationGiven(hx) ==
    /\ hx.pc \notin {"idle", "getHousingState"}
    /\ hx.state.present
    /\ hx.state.stage \in {"detected", "awaiting_location"}
    /\ extractLocation(hx.message) = Null

\* C22: a message without a location, in stage 'detected' or
\* 'awaiting_location', is answered with the re-prompt and continueFlow true
\* in the step that read the state, and that step writes nothing: the stored
\* record is the one that was read, stage, fields and timestamp included.
C22_RepromptLeavesStateUnchanged ==
    /\ [](\A x \in Handlers : NoLocationGiven(h[x]) =>
            /\ h[x].pc = "done"
            /\ h[x].response = RepromptForLocation
            /\ h[x].continueFlow)
    /\ [][\A x \in Handlers : (h[x].pc = "getHousingState" /\ NoLocationGiven(h'[x])) =>
            /\ redis' = redis
            /\ redis'[h[x].key].val = h'[x].state
            /\ now' = now]_vars

C22_Witness ==
    \E x \in Handlers :
        /\ NoLocationGiven(h[x])
        /\ h[x].pc = "done"
        /\ h[x].state.stage = "detected"
        /\ h[x].response = RepromptForLocation
        /\ h[x].readAt > h[x].state.timestamp
        /\ now = h[x].readAt
        /\ redis[h[x].key].val = h[x].state

\* the handler has reached the call of getHousingRecommendations
PipelineInvoked(hx) ==
    hx.pc \in {"getHousingRecommendations", "clearHousingState"} \/ hx.pipeline # "none"

InPreferencesStage(hx) ==
    /\ hx.pc \notin {"idle", "getHousingState"}
    /\ hx.state.present
    /\ hx.state.stage = "awaiting_preferences"

\* what handlePreferencesStage makes of the state it was given
PreferencesMerged(state, t) ==
    [ present |-> TRUE, stage |-> "complete", location |-> state.location,
      demographics |-> [age |-> "25", ethnicity |-> state.demographics.ethnicity],
      preferences |-> state.preferences \o <<"vibrant">>,
      timestamp |-> t ]

Accumulated(log) == FlattenSeq([i \in 1..Len(log) |->
                                   IF log[i].ok THEN log[i].results ELSE <<>>])

\* the answers of a log, as the vector gatherPersonData is given
AnswersOf(log) == [i \in 1..3 |-> IF i <= Len(log)
                                  THEN [ok |-> log[i].ok, results |-> log[i].results]
                                  ELSE Threw]

\* C25: a failing entity search is skipped: every query of the first three is
\* still issued, in order, whatever failed before it; the entities held are those
\* of the searches that resolved, in query order; and the gatherer goes on to the
\* keywords, reaching the same entities as gatherPersonData computes.
C25_FailedEntitySearchIsSkipped ==
    /\ [](/\ fn.entities = Accumulated(fn.searched)
          /\ \A i \in 1..Len(fn.searched) : fn.searched[i].query = fn.queries[i]
          /\ fn.pc = "search" => Len(fn.searched) = fn.qi - 1 /\ fn.qi <= Len(fn.queries)
          /\ fn.pc # "search" => Len(fn.searched) = Len(fn.queries)
          /\ fn.pc = "done" =>
                fn.entities = gatherPersonData(fn.person, AnswersOf(fn.searched),
                                               AnswersOf(fn.tagged)).entities)
    /\ [][fn.pc = "search" /\ fn.qi < Len(fn.queries)
             => /\ fn'.pc = "search"
                /\ fn'.qi = fn.qi + 1
                /\ Len(fn'.searched) = Len(fn.searched) + 1]_vars

\* a gather call is over whose first or second entity search failed and a later
\* one brought entities
C25_Witness ==
    /\ fn.pc = "done"
    /\ \E i \in 1..2 : /\ ~fn.searched[i].ok
                       /\ \E j \in (i + 1)..3 : fn.searched[j].ok
    /\ Len(fn.entities) >= 2

\* C26 (as the specification states it): a failing tag search is skipped like a
\* failing entity search: every keyword of the first three is searched and the
\* tags of the searches that resolved are all held.
C26_FailedTagSearchIsSkipped ==
    fn.pc = "done" =>
        /\ Len(fn.tagged) = Len(fn.interests)
        /\ \A i \in 1..Len(fn.tagged) : fn.tagged[i].query = fn.interests[i]
        /\ fn.tags = Accumulated(fn.tagged)

\* C27: a gather call issues at most three entity searches and at most three tag
\* searches, one at a time, whatever the profile holds; the entity queries are the
\* first three of name, role, department, location, heritage terms, in that order,
\* and the keywords the first three extracted.
C27_AtMostThreeSearchesEach ==
    /\ [](/\ Len(fn.searched) <= 3 /\ Len(fn.tagged) <= 3
          /\ \A i \in 1..Len(fn.searched) :
                fn.searched[i].query = searchQueries(fn.person)[i]
          /\ Len(fn.searched) >= 1 => fn.searched[1].query = fn.person.name
          /\ Len(fn.searched) >= 2 => fn.searched[2].query = fn.person.role
          /\ Len(fn.searched) >= 3 => fn.searched[3].query = fn.person.department
          /\ \A i \in 1..Len(fn.tagged) :
                fn.tagged[i].query = extractInterestKeywords(fn.person)[i]
          /\ Len(fn.tagged) > 0 => Len(fn.searched) = Min2(3, Len(searchQueries(fn.person))))
    /\ [][Len(fn'.searched) + Len(fn'.tagged) <= Len(fn.searched) + Len(fn.tagged) + 1]_vars

\* a gather call is over for a profile with a location and two heritage terms,
\* five keywords or more, after three entity and three tag searches
C27_Witness ==
    /\ fn.pc = "done"
    /\ Len(searchQueries(fn.person)) >= 6
    /\ Len(extractInterestKeywords(fn.person)) >= 5
    /\ Len(fn.searched) = 3 /\ Len(fn.tagged) = 3

(***************************************************************************)
(* Properties of the taste commonalities                                    *)
(***************************************************************************)
\* the taste commonalities of the candidate whose pipeline has run
PipeQloo ==
    QlooSteps(gatherPersonData(pipe.emp, pipe.in.empSearch, pipe.in.empTags),
              gatherPersonData(pipe.person, pipe.in.perSearch, pipe.in.perTags),
              pipe.emp, pipe.in.compare, pipe.in.insights)

\* the statements of one kind in a list of commonalities, in order
OfKind(cs, kind) == FilterSeq(cs, {c \in Range(cs) : c.kind = kind})

\* the pipeline has run to its end and returned the candidate's own result
PipelineCompleted == pipe.done /\ ~pipe.thrown /\ ~pipe.calls.threw

\* the first three of the entries whose affinity exceeds 0.5, in result order
FirstThreeKept(rs) ==
    Slice0(FilterSeq(rs, {x \in Range(rs) : x.affinity > InsightKeepTenths}), 3)

\* C28 (as the specification states it): of the results of the recommendation
\* pass, the entries with affinity above 0.5 are kept, and a 'shared affinity for'
\* statement is emitted for the first three kept entries, in result order.
C28_FirstThreeKeptAreEmitted ==
    (PipelineCompleted /\ PipeQloo.insightsCalled /\ pipe.in.insights.ok) =>
        LET kept == FirstThreeKept(Slice0(pipe.in.insights.results, 10))
        IN  OfKind(pipe.out[1].commonalities, "Shared affinity for")
              = Dedup([i \in 1..Len(kept) |-> Statement("Shared affinity for", kept[i].name)])

\* the categories, and the tag names, the two bags share
SharedCategories(employeeData, personData) ==
    {employeeData.entities[i].category : i \in 1..Len(employeeData.entities)}
    \cap {personData.entities[i].category : i \in 1..Len(personData.entities)}
SharedTagNames(employeeData, personData) ==
    {employeeData.tags[i].name : i \in 1..Len(employeeData.tags)}
    \cap {personData.tags[i].name : i \in 1..Len(personData.tags)}

\* C29 (as the specification states it): a failing getInsights call counts as an
\* empty result: the candidate still gets a statement for every category and every
\* tag name the two bags share, and keeps the comparison's statements.
C29_InsightsFailureIsEmptyResult ==
    (PipelineCompleted /\ PipeQloo.insightsThrew) =>
        LET employeeData == gatherPersonData(pipe.emp, pipe.in.empSearch, pipe.in.empTags)
            personData == gatherPersonData(pipe.person, pipe.in.perSearch, pipe.in.perTags)
            cs == Range(pipe.out[1].commonalities)
        IN  /\ \A c \in SharedCategories(employeeData, personData) :
                  Statement("Shared interest in", c) \in cs
            /\ \A t \in SharedTagNames(employeeData, personData) :
                  Statement("Both associated with", t) \in cs
            /\ PipeQloo.compareCalled /\ pipe.in.compare.ok =>
                  \A i \in 1..Min2(3, Len(pipe.in.compare.results)) :
                      Statement("Both might enjoy", pipe.in.compare.results[i].name) \in cs

\* the bag holds a matched entity with an id
HasEntityId(bag) == \E i \in 1..Len(bag.entities) : bag.entities[i].id # Null

\* C30 (as the specification states it): the comparison is requested exactly when
\* both bags hold a matched entity with a non-null id; each group it is given is
\* non-empty, free of null ids and of at most five ids; at most three of the
\* returned items become 'both might enjoy' statements.
C30_ComparisonIffBothHaveIds ==
    pipe.done =>
        LET employeeEntityIds == ValidIds(Slice0(pipe.employeeData.entities, 5))
            personEntityIds == ValidIds(Slice0(pipe.personData.entities, 5))
        IN  /\ pipe.q.compareCalled
                  <=> (HasEntityId(pipe.employeeData) /\ HasEntityId(pipe.personData))
            /\ pipe.q.compareCalled =>
                  /\ employeeEntityIds # <<>> /\ personEntityIds # <<>>
                  /\ Null \notin Range(employeeEntityIds) \cup Range(personEntityIds)
                  /\ Len(employeeEntityIds) <= 5 /\ Len(personEntityIds) <= 5
            /\ Len(OfKind(pipe.q.commonInterests, "Both might enjoy")) <= 3
            /\ ~pipe.q.compareCalled => OfKind(pipe.q.commonInterests, "Both might enjoy") = <<>>

(***************************************************************************)
(* Properties of the directory enrichment                                   *)
(***************************************************************************)
\* present and non-empty: a non-empty string or a non-empty list
NonEmpty(v) == (v.t = "string" /\ v.s # "") \/ (v.t = "list" /\ v.l # <<>>)

\* the value a field has after a merge in which the directory overrides only
\* when its field is present and non-empty
Overridden(requested, lookup, field) ==
    IF lookup.kind = "found" /\ NonEmpty(lookup.profile[field])
    THEN lookup.profile[field] ELSE requested[field]

\* C31 (as the specification states it): in the enriched employee and the
\* enriched candidate, a directory field replaces the request's value only when it
\* is present and non-empty; an absent or empty one leaves the request's value.
C31_EmptyDirectoryFieldNeverOverrides ==
    /\ fn.pc # "employee" =>
          \A f \in {"culturalHeritage", "ageRange", "genderIdentity"} :
              fn.enrichedEmployee[f] = Overridden(fn.employee, fn.notionEmployee, f)
    /\ fn.pc = "done" =>
          \A f \in {"location", "culturalHeritage", "ageRange", "genderIdentity"} :
              fn.enrichedPeople[1][f] = Overridden(fn.person, fn.notionPerson, f)

(***************************************************************************)
(* Further properties of the conversation state store                       *)
(***************************************************************************)
\* the key the handler that takes this step works on
StepKeys == {h'[x].key : x \in {y \in Handlers : h'[y] # h[y]}}

\* distinct (user, scope) pairs are stored under distinct keys
DistinctPairsHaveDistinctKeys ==
    \A u1, u2 \in {"U1", "U2"}, c1, c2 \in {Null, "C1", "C2"} :
        <<u1, c1>> # <<u2, c2>> => getStateKey(u1, c1) # getStateKey(u2, c2)

\* C32: the state is per (user, scope) key.  Distinct (user, scope) pairs have
\* distinct keys, the DM scope included; a step of a handler (creating, advancing,
\* purging or clearing) changes the store under its own key only; a handler reads
\* the record of its own key; and the passing of time hides a record only by that
\* record's own expiry.
C32_OtherKeysUnchanged ==
    /\ []DistinctPairsHaveDistinctKeys
    /\ [][/\ \A k \in Keys : k \notin StepKeys => redis'[k] = redis[k]
          /\ \A x \in Handlers :
                h[x].pc = "getHousingState" /\ h'[x] # h[x]
                   => h'[x].raw = redisGet(redis, h[x].key, now)
          /\ \A k \in Keys :
                now' # now /\ now' < redis[k].exp
                   => redisGet(redis', k, now') = redisGet(redis, k, now)]_vars

\* the same user's channel conversation has been completed and cleared while the
\* state of the DM conversation, created before, is still stored
C32_Witness ==
    /\ redisGet(redis, getStateKey("U1", Null), now).present
    /\ redisGet(redis, getStateKey("U1", Null), now).stage = "detected"
    /\ ~redis[getStateKey("U1", "C1")].val.present
    /\ \E x \in Handlers : /\ h[x].key = getStateKey("U1", "C1")
                           /\ h[x].pc = "done" /\ h[x].pipeline = "resolved"

(***************************************************************************)
(* Further properties of the gender mapping                                 *)
(***************************************************************************)
\* C33 (as the specification states it): an identity that is no exact match and
\* contains "woman" or "female" is mapped to 'female'.
C33_ContainsWomanMapsToFemale ==
    LET lowerGender == toLowerCase(fn.genderIdentity)
    IN  (/\ fn.done
         /\ lowerGender \notin {Male, Man, Female, Woman}
         /\ includes(lowerGender, Woman) \/ includes(lowerGender, Female))
        => fn.gender = "female"

(***************************************************************************)
(* Properties of the conversation memory                                    *)
(***************************************************************************)
\* C34: whatever calls of addMessage were made on a key, the stored history holds
\* at most 20 messages, and they are the messages appended last, in the order in
\* which they were appended.
C34_HistoryKeepsLastTwenty ==
    \A k \in MemoryKeys :
        LET stored == memory[k].messages
            all == fn.appended[k]
        IN  /\ Len(stored) <= 20
            /\ Len(stored) = Min2(20, Len(all))
            /\ \A i \in 1..Len(stored) : stored[i] = all[Len(all) - Len(stored) + i]

\* more than 20 messages were appended to a history: the oldest are gone
C34_Witness ==
    \E k \in MemoryKeys :
        /\ fn.pc = "idle"
        /\ Len(fn.appended[k]) > 20
        /\ Len(memory[k].messages) = 20
        /\ memory[k].messages[1] # fn.appended[k][1]

(***************************************************************************)
(* Properties of the stages of the housing conversation                     *)
(***************************************************************************)
AwaitingStages == {"awaiting_location", "awaiting_preferences"}

\* C35: starting from an empty store, every stored record has stage 'detected' or
\* 'complete'; no handler holds, reads or is about to write a record of stage
\* 'awaiting_location' or 'awaiting_preferences'; and no handler is in the
\* preferences stage, whose update alone leaves the location out.
C35_OnlyDetectedAndCompleteStored ==
    /\ \A k \in Keys :
          redis[k].val.present => redis[k].val.stage \in {"detected", "complete"}
    /\ \A x \in Handlers :
          /\ h[x].raw.stage \notin AwaitingStages
          /\ h[x].state.stage \notin AwaitingStages
          /\ h[x].updateRaw.stage \notin AwaitingStages
          /\ h[x].currentState.stage \notin AwaitingStages
          /\ h[x].pending.stage \notin AwaitingStages
          /\ h[x].updates.val.stage \notin AwaitingStages
          /\ h[x].updates.fields \in {{}, StateFields}

\* one conversation of the user is stored at 'detected' while another is stored
\* at 'complete'
C35_Witness ==
    \E k1, k2 \in Keys :
        /\ redisGet(redis, k1, now).stage = "detected"
        /\ redisGet(redis, k2, now).stage = "complete"

\* no other handler is at work on the key of handler x
AloneOnKey(x) ==
    \A y \in Handlers \ {x} : h[y].pc \in {"idle", "done"} \/ h[y].key # h[x].key

\* C36: the store answers every call; when handleHousingConversation returns for
\* a key no other handler is at work on, continueFlow is true exactly when a state
\* of a stage other than 'complete' is stored under the key at that moment, and
\* false exactly when no state is stored under it.
C36_ContinueFlowIffStateRemains ==
    [][\A x \in Handlers :
          (h[x].pc # "done" /\ h'[x].pc = "done" /\ AloneOnKey(x)) =>
              LET left == redisGet(redis', h[x].key, now')
              IN  /\ h'[x].continueFlow <=> (left.present /\ left.stage # "complete")
                  /\ ~h'[x].continueFlow <=> ~left.present]_vars

\* two calls have returned: one asked for the location and left its 'detected'
\* state stored, the other ended after a failed pipeline and left nothing
C36_Witness ==
    \E x, y \in Handlers :
        /\ h[x].pc = "done" /\ h[x].continueFlow
        /\ redisGet(redis, h[x].key, now).stage = "detected"
        /\ h[y].pc = "done" /\ ~h[y].continueFlow /\ h[y].pipeline = "threw"
        /\ ~redisGet(redis, h[y].key, now).present

(***************************************************************************)
(* Further properties of the delivery chain                                 *)
(***************************************************************************)
\* C37: whatever succeeds or fails in the chains, slackMessages of the response
\* has one entry for each of the top min(3, N) candidates and no other, in rank
\* order, each with status 'sent', 'sent_to_default' or 'failed'; while the loop
\* runs there is one entry for each candidate whose pass is over.
C37_OneEntryPerTopCandidate ==
    /\ dlv.pc = "responded" =>
          /\ Len(dlv.slackMessages) = MinOf(3, Len(dlv.body.people.list))
          /\ \A n \in 1..Len(dlv.slackMessages) :
                /\ dlv.slackMessages[n].person = dlv.body.people.list[n].name
                /\ dlv.slackMessages[n].status \in {"sent", "sent_to_default", "failed"}
    /\ dlv.pc \in {"generatePersonalizedMessage", "option1", "option2", "option3"} =>
          /\ Len(dlv.messageResults) = dlv.i - 1
          /\ \A n \in 1..Len(dlv.messageResults) :
                dlv.messageResults[n].person = dlv.top[n].name

\* four candidates; the response lists the first three, one failed, one posted to
\* the default channel, one sent directly
C37_Witness ==
    /\ dlv.pc = "responded"
    /\ Len(dlv.body.people.list) = 4
    /\ [n \in 1..Len(dlv.slackMessages) |-> dlv.slackMessages[n].status]
          = <<"failed", "sent_to_default", "sent">>
    /\ [n \in 1..Len(dlv.slackMessages) |-> dlv.slackMessages[n].person]
          = <<"P1", "P2", "P3">>

(***************************************************************************)
(* Properties of concurrent handlers                                        *)
(***************************************************************************)
\* the handler has gone through both addMessage calls of its message
HasAppended(x) ==
    /\ chat[x].pc = "done"
    /\ chat[x].text # "" /\ detectCommand(chat[x].text) = Null
    /\ chat[x].response # ErrorReply

\* C38 (as the specification states it): when two handlers that were at work at
\* the same time have both completed, with no clear command among them, the
\* history of every key holds the user message and the reply of each handler
\* that appended to it: two messages for each such handler.
C38_NoAppendIsLost ==
    (/\ \A x \in Handlers : chat[x].pc = "done"
     /\ \A x \in Handlers : detectCommand(chat[x].text) # "clear")
    => \A k \in MemoryKeys :
          LET writers == {x \in Handlers :
                             HasAppended(x) /\ getKey(chat[x].user, chat[x].channel) = k}
          IN  /\ Len(memory[k].messages) = 2 * Cardinality(writers)
              /\ \A x \in writers :
                    /\ [role |-> "user", content |-> chat[x].text]
                          \in Range(memory[k].messages)
                    /\ [role |-> "assistant", content |-> chat[x].response]
                          \in Range(memory[k].messages)

\* C39 (as the specification states it): once the clear command has deleted the
\* housing state, a handler that had read the state of the key before the
\* deletion writes no record under the key, and no record such a handler wrote
\* is stored under it.
C39_ClearIsNotUndone ==
    /\ [][\A x \in Handlers :
             (fn[x] /\ h[x].pc \in {"setHousingState", "updateWrite"} /\ h'[x].pc # h[x].pc)
                 => redis'[h[x].key] = redis[h[x].key]]_vars
    /\ [](\A x \in Handlers :
             (fn[x] /\ h[x].pc \in {"getHousingRecommendations", "clearHousingState"})
                 => ~redisGet(redis, h[x].key, now).present)
====
